---- MODULE Spec2Model ----
(***************************************************************************)
(* Model of the Vercel integration server: the batch environment-variable  *)
(* setter of the platform client (src/lib/vercel-api.ts), the deployment   *)
(* trigger that drives it (deployFromGitHub and the deploy route), and the *)
(* two tables the routes read and write.                                   *)
(*                                                                         *)
(* Strings the code inspects with includes() or builds by interpolation    *)
(* are sequences of words, so that "contains" and "lists" are computed.    *)
(***************************************************************************)
EXTENDS Integers, Sequences, FiniteSets, TLC

VARIABLES
    envCalls,   \* r -> the creation calls of the batch of request r, in entry order
    setter,     \* r -> the setEnvironmentVariables invocation of request r
    outbound,   \* r -> the outbound HTTP calls request r has issued, in order
    projEnv,    \* platform: project -> key -> value stored (NoValue when absent)
    deployments,\* platform: the deployments created, in order
    accounts,   \* the accounts table, a row's id its position
    installations, \* the installations table, a row's uuid its position
    req,        \* r -> the deploy request running in slot r
    started,    \* the number of deploy requests received so far
    oauth       \* the OAuth callback request being served

vars == <<envCalls, setter, outbound, projEnv, deployments, accounts, installations,
          req, started, oauth>>

----------------------------------------------------------------------------
(* Bounds *)

\* largest batch handed to setEnvironmentVariables when it is checked alone
MaxBatch == 5

\* request slots: inbound requests that may be in progress at the same time
Reqs == {"r1", "r2"}

\* the caller's slot when setEnvironmentVariables is exercised on its own
Caller == "r1"

\* deploy requests received over a run
MaxDeploys == 2

\* rows the installations table may grow to
MaxInstalls == 2

\* callback requests received over a run, when they are served step by step
MaxCallbacks == 3

\* code units of the longest access token the cipher is exercised with
MaxText == 3

Projects == {"prj_1", "prj_2"}

\* what the platform's token exchange may answer with
Users == {"usr_1"}
\* access tokens of the platform, as sequences of code units
Tokens == {<<1, 2>>, <<2, 1, 3>>}
ConfigIds == {"cfg_1", "cfg_2"}

----------------------------------------------------------------------------
(* Strings as word sequences *)

NoMsg == <<>>
NoValue == "<absent>"

RECURSIVE IncludesAt(_, _, _)
IncludesAt(s, sub, i) ==
    IF i + Len(sub) - 1 > Len(s) THEN FALSE
    ELSE IF SubSeq(s, i, i + Len(sub) - 1) = sub THEN TRUE
    ELSE IncludesAt(s, sub, i + 1)

\* String.prototype.includes
Includes(s, sub) == IncludesAt(s, sub, 1)

NumStr(n) ==
    CASE n = 0 -> "0" [] n = 1 -> "1" [] n = 2 -> "2" [] n = 3 -> "3"
      [] n = 4 -> "4" [] n = 5 -> "5" [] n = 6 -> "6" [] n = 7 -> "7"
      [] n = 8 -> "8" [] n = 9 -> "9"
      [] n = 400 -> "400" [] n = 401 -> "401" [] n = 403 -> "403"
      [] n = 404 -> "404" [] n = 409 -> "409" [] n = 500 -> "500"
      [] OTHER -> "n"

RECURSIVE Join(_, _)
\* Array.prototype.join over word sequences, the separator a sequence of words
Join(parts, sep) ==
    IF parts = <<>> THEN <<>>
    ELSE IF Len(parts) = 1 THEN Head(parts)
    ELSE Head(parts) \o sep \o Join(Tail(parts), sep)

Range(s) == {s[i] : i \in 1..Len(s)}

RECURSIVE Unique(_)
\* [...new Set(xs)]: the distinct elements in order of first occurrence
Unique(xs) ==
    IF xs = <<>> THEN <<>>
    ELSE LET rest == Unique(SubSeq(xs, 1, Len(xs) - 1))
             last == xs[Len(xs)]
         IN IF last \in Range(rest) THEN rest ELSE Append(rest, last)

----------------------------------------------------------------------------
(* Errors of outbound calls (the AxiosError the HTTP client rejects with) *)

\* status 0: no response was received (network error); errKind is
\* typeof response.data.error; empty word sequences are undefined fields
\* dataStr is response.data when it is a string; errInner is
\* response.data.error.error (errInnerKind its typeof); errorDescription is
\* response.data.error_description; errors is the array response.data.errors;
\* dataJson is JSON.stringify(response.data) of an object with keys
MkError(status, errKind, errStr, errCode, errMessage, dataMessage, message) ==
    [status |-> status, errKind |-> errKind, errStr |-> errStr,
     errCode |-> errCode, errMessage |-> errMessage,
     dataMessage |-> dataMessage, message |-> message,
     dataStr |-> <<>>, errInnerKind |-> "none", errInner |-> <<>>,
     errorDescription |-> <<>>, errors |-> <<>>, dataJson |-> <<>>]

NoError == MkError(0, "none", NoMsg, "none", NoMsg, NoMsg, NoMsg)

\* a response the HTTP client resolves with, not an error
Created == MkError(201, "none", NoMsg, "none", NoMsg, NoMsg, NoMsg)

\* the HTTP client resolves on a 2xx status and rejects otherwise
Resolves(resp) == resp.status >= 200 /\ resp.status < 300

RequestFailed(status) ==
    <<"Request", "failed", "with", "status", "code", NumStr(status)>>

AlreadyExists == <<"already", "exists">>

E409 == MkError(409, "none", NoMsg, "none", NoMsg, NoMsg, RequestFailed(409))
E400Code == MkError(400, "object", NoMsg, "ENV_CONFLICT", <<"conflict">>, NoMsg,
                    RequestFailed(400))
E400Exists == MkError(400, "object", NoMsg, "BAD_REQUEST",
                      <<"variable", "already", "exists">>, NoMsg, RequestFailed(400))
E500Exists == MkError(500, "object", NoMsg, "INTERNAL",
                      <<"deployment", "already", "exists">>, NoMsg, RequestFailed(500))
E401 == MkError(401, "none", NoMsg, "none", NoMsg, <<"Not", "authorized">>,
                RequestFailed(401))
E400Invalid == MkError(400, "string", <<"Invalid", "value">>, "none", NoMsg, NoMsg,
                       RequestFailed(400))
ENetwork == MkError(0, "none", NoMsg, "none", NoMsg, NoMsg, <<"Network", "Error">>)

\* the failures the platform is let to answer a creation call with
CreateErrors == {E409, E400Code, E400Exists, E500Exists, E401, E400Invalid, ENetwork}

\* extractErrorMessage, the helper inside setEnvironmentVariables
ExtractErrorMessage(error) ==
    IF error.errKind = "object" /\ error.errMessage # NoMsg THEN error.errMessage
    ELSE IF error.errKind = "string" /\ error.errStr # NoMsg THEN error.errStr
    ELSE IF error.dataMessage # NoMsg THEN error.dataMessage
    ELSE IF error.message # NoMsg /\ ~Includes(error.message, <<"Request", "failed">>)
        THEN error.message
    ELSE IF error.status # 0 THEN <<"HTTP", NumStr(error.status), "error">>
    ELSE <<"Error:">> \o error.message

\* isConflictError of error-utils
IsConflictError(error) ==
    IF error.status = 409 THEN TRUE
    ELSE IF error.status = 400
    THEN \/ error.errCode = "ENV_CONFLICT"
         \/ (error.errKind = "object" /\ Includes(error.errMessage, AlreadyExists))
    ELSE FALSE

\* a classification that knows the 409 status only
IsConflict409Only(error) == error.status = 409

\* the isConflict test of the catch block of each creation call
IsConflict(error) ==
    \/ error.status = 409
    \/ /\ error.status = 400
       /\ \/ error.errCode = "ENV_CONFLICT"
          \/ (error.errKind = "object" /\ Includes(error.errMessage, AlreadyExists))

----------------------------------------------------------------------------
(* setEnvironmentVariables: one creation call per variable *)

\* the keys of the environment handed to the setter, in the entry order of
\* the object literal the deploy route builds (a representative selection)
EnvKeyOrder ==
    <<"SUPABASE_URL", "OPENAI_API_KEY", "AI_MODEL", "MIGRATION_SECRET_KEY",
      "JWT_SECRET", "DEFAULT_ADMIN_EMAIL">>

NoCalls == <<>>
IdleSetter == [state |-> "idle", projectId |-> "none", variables |-> <<>>, thrown |-> NoMsg]

\* a creation call in flight: the promise of the async arrow is pending
InFlight(entry) ==
    [key |-> entry.key, value |-> entry.value, st |-> "inflight",
     success |-> FALSE, error |-> NoError, isConflict |-> FALSE,
     conflictMessage |-> NoMsg]

\* the value the async arrow of a creation call resolves with
CallResult(call, resp) ==
    IF Resolves(resp)
    THEN [call EXCEPT !.st = "fulfilled", !.success = TRUE]
    ELSE IF IsConflict(resp)
    THEN [call EXCEPT !.st = "fulfilled", !.success = FALSE, !.error = resp,
                      !.isConflict = TRUE,
                      !.conflictMessage = ExtractErrorMessage(resp)]
    ELSE [call EXCEPT !.st = "fulfilled", !.success = FALSE, !.error = resp]

\* a batch builder that loses the last entry of the mapping
EnvsDropLast(variables) == SubSeq(variables, 1, Len(variables) - 1)

\* const envs = Object.entries(variables).map(...): one entry per variable
Envs(variables) == variables

\* the POST /v10/projects/{projectId}/env of one entry
CreateEnvCall(projectId, env) ==
    [op |-> "createEnv", project |-> projectId, key |-> env.key, value |-> env.value]

\* envs.map(async ...): every creation call is started in the same turn,
\* each arrow running up to its await of the POST
IssueAll(r, log, projectId, variables) ==
    LET envs == Envs(variables)
    IN /\ envCalls' = [envCalls EXCEPT ![r] = [i \in 1..Len(envs) |-> InFlight(envs[i])]]
       /\ outbound' = [outbound EXCEPT ![r] =
                           log \o [i \in 1..Len(envs) |-> CreateEnvCall(projectId, envs[i])]]
       /\ setter' = [setter EXCEPT ![r] =
                           [state |-> "waiting", projectId |-> projectId,
                            variables |-> variables, thrown |-> NoMsg]]

\* a creation call that, refused as a conflict, updates the variable
RespondUpdating(r, i, resp) ==
    /\ setter[r].state = "waiting"
    /\ i \in 1..Len(envCalls[r])
    /\ envCalls[r][i].st = "inflight"
    /\ envCalls' = [envCalls EXCEPT ![r][i] =
                        IF IsConflict(resp) THEN CallResult(envCalls[r][i], Created)
                        ELSE CallResult(envCalls[r][i], resp)]
    /\ projEnv' = IF Resolves(resp) \/ IsConflict(resp)
                  THEN [projEnv EXCEPT ![setter[r].projectId][envCalls[r][i].key] =
                                           envCalls[r][i].value]
                  ELSE projEnv

\* the platform answers creation call i of request r with resp; a created
\* variable is then stored on the project
Respond(r, i, resp) ==
    /\ setter[r].state = "waiting"
    /\ i \in 1..Len(envCalls[r])
    /\ envCalls[r][i].st = "inflight"
    /\ envCalls' = [envCalls EXCEPT ![r][i] = CallResult(envCalls[r][i], resp)]
    /\ projEnv' = IF Resolves(resp)
                  THEN [projEnv EXCEPT ![setter[r].projectId][envCalls[r][i].key] =
                                           envCalls[r][i].value]
                  ELSE projEnv

\* an entry of failures: a result whose success is false
Failure(call) ==
    [key |-> call.key, error |-> ExtractErrorMessage(call.error),
     status |-> call.error.status, isConflict |-> call.isConflict,
     conflictMessage |-> call.conflictMessage]

\* a report that takes a variable that exists for one that was set
ConflictsForgiven(calls) ==
    LET failed == SelectSeq(calls, LAMBDA c : ~c.success /\ ~c.isConflict)
    IN [i \in 1..Len(failed) |-> Failure(failed[i])]

Failures(calls) ==
    LET failed == SelectSeq(calls, LAMBDA c : ~c.success)
    IN [i \in 1..Len(failed) |-> Failure(failed[i])]

KeysOf(fs) == [i \in 1..Len(fs) |-> <<fs[i].key>>]

\* the message of the error raised when conflicts.length > 0
ConflictErrorMessage(conflicts) ==
    <<"Cannot", "set", "environment", "variables:", NumStr(Len(conflicts)),
      "variable(s)", "already", "exist", "in", "your", "Vercel", "project:">>
    \o Join(KeysOf(conflicts), <<",">>)
    \o <<"Please", "remove", "these", "existing", "environment", "variables",
         "from", "your", "Vercel", "project", "settings", "before", "deploying,",
         "or", "use", "different", "variable", "names.">>

\* const mostCommonError = uniqueErrors[0]
MostCommonError(uniqueErrors) == uniqueErrors[1]

\* the message of the error raised when only non-conflict failures occurred
OtherErrorMessage(otherErrors, total) ==
    LET errorMessages == SelectSeq([i \in 1..Len(otherErrors) |-> otherErrors[i].error],
                                   LAMBDA m : m # NoMsg)
        uniqueErrors == Unique(errorMessages)
        head == <<"Failed", "to", "set", NumStr(Len(otherErrors)), "of", NumStr(total),
                  "environment", "variable(s):">>
                \o Join(KeysOf(otherErrors), <<",">>)
    IN IF Len(uniqueErrors) > 0 /\ Len(uniqueErrors) <= 3
       THEN head \o <<"Errors:">>
            \o Join([i \in 1..Len(uniqueErrors) |-> <<"-">> \o uniqueErrors[i]], <<"\n">>)
       ELSE IF Len(uniqueErrors) > 0
       THEN head \o <<"Most", "common", "error:">> \o MostCommonError(uniqueErrors)
       ELSE head

\* a report that takes every failure for a conflict
AllFailuresAsConflicts(failures) == failures

\* const conflicts = failures.filter(f => f.isConflict)
Conflicts(failures) == SelectSeq(failures, LAMBDA f : f.isConflict)

\* a setter that returns whatever the results are
AlwaysReturns(calls) == [state |-> "returned", thrown |-> NoMsg]

\* what the setter does once the results are in: return, or throw a message
SetterOutcome(calls) ==
    LET failures == Failures(calls)
        conflicts == Conflicts(failures)
        otherErrors == SelectSeq(failures, LAMBDA f : ~f.isConflict)
    IN IF Len(failures) = 0 THEN [state |-> "returned", thrown |-> NoMsg]
       ELSE IF Len(conflicts) > 0
       THEN [state |-> "threw", thrown |-> ConflictErrorMessage(conflicts)]
       ELSE [state |-> "threw", thrown |-> OtherErrorMessage(otherErrors, Len(calls))]

\* a join that the first known failure ends (Promise.all over rejecting calls)
FirstFailureEndsWait(calls) ==
    \/ \A i \in 1..Len(calls) : calls[i].st = "fulfilled"
    \/ \E i \in 1..Len(calls) : calls[i].st = "fulfilled" /\ ~calls[i].success

\* Promise.allSettled(promises) resolves
AllSettled(calls) == \A i \in 1..Len(calls) : calls[i].st = "fulfilled"

\* the setter resumes after the join and returns or throws
SetterJoin(r) ==
    /\ setter[r].state = "waiting"
    /\ AllSettled(envCalls[r])
    /\ setter' = [setter EXCEPT ![r].state = SetterOutcome(envCalls[r]).state,
                                ![r].thrown = SetterOutcome(envCalls[r]).thrown]

----------------------------------------------------------------------------
(* The setter on its own: one caller, any batch, any answers *)

BatchValue(key) == "v_" \o key

\* the first n variables of the environment
Batch(n) == [i \in 1..n |-> [key |-> EnvKeyOrder[i], value |-> BatchValue(EnvKeyOrder[i])]]

EmptyProject == [k \in Range(EnvKeyOrder) |-> NoValue]

\* no response sent yet
NoResponse ==
    [status |-> 0, error |-> "none", message |-> NoMsg, deploymentId |-> "none",
     deploymentUrl |-> "none", projectName |-> "none", migrationSecretKey |-> "none"]

\* a request slot with no request in it
IdleRequest ==
    [pc |-> "idle", seq |-> 0, configurationId |-> "none", installation |-> 0, accountId |-> 0,
     accessToken |-> <<>>, config |-> <<>>, projects |-> <<>>, projectId |-> "none",
     failedAt |-> "none", body |-> [json |-> TRUE, absent |-> {}],
     thrown |-> [kind |-> "none", err |-> NoError, message |-> NoMsg],
     env |-> <<>>, migrationSecretKey |-> "none", jwtSecret |-> "none", repoId |-> "none",
     deployment |-> [id |-> "none", url |-> "none"], response |-> NoResponse]

\* the state after construction: empty tables, nothing deployed, no request
\* the tokenData of a callback that has not exchanged its code
NoTokenData ==
    [access_token |-> <<>>, installation_id |-> "none", user_id |-> "none",
     team_id |-> "none"]

NoCallbackResponse == [status |-> 0, error |-> "none", location |-> "none", next |-> "none"]

\* no callback is being served
IdleCallback ==
    [pc |-> "idle", code |-> "none", next |-> "none", tokenData |-> NoTokenData,
     accountId |-> 0, installation |-> 0, exchanges |-> <<>>,
     response |-> NoCallbackResponse, now |-> 0]

Init ==
    /\ envCalls = [r \in Reqs |-> NoCalls]
    /\ setter = [r \in Reqs |-> IdleSetter]
    /\ outbound = [r \in Reqs |-> <<>>]
    /\ projEnv = [p \in Projects |-> EmptyProject]
    /\ deployments = <<>>
    /\ accounts = <<>>
    /\ installations = <<>>
    /\ req = [r \in Reqs |-> IdleRequest]
    /\ started = 0
    /\ oauth = IdleCallback

InitBatch == Init

BatchCall(n) ==
    /\ setter[Caller].state = "idle"
    /\ IssueAll(Caller, outbound[Caller], "prj_1", Batch(n))
    /\ UNCHANGED <<projEnv, deployments, accounts, installations, req, started, oauth>>

BatchRespond(i, resp) ==
    /\ Respond(Caller, i, resp)
    /\ UNCHANGED <<setter, outbound, deployments, accounts, installations, req, started, oauth>>

BatchJoin ==
    /\ SetterJoin(Caller)
    /\ UNCHANGED <<envCalls, outbound, projEnv, deployments, accounts, installations,
                   req, started, oauth>>

NextBatch ==
    \/ \E n \in 0..MaxBatch : BatchCall(n)
    \/ \E i \in 1..MaxBatch, resp \in {Created} \cup CreateErrors : BatchRespond(i, resp)
    \/ BatchJoin

SpecBatch == InitBatch /\ [][NextBatch]_vars

----------------------------------------------------------------------------
(* Storage: the accounts and installations tables *)

\* The cipher is scaled down: a byte is a number of 0..15 and a block has
\* four bytes. Code units below 8 are one byte; a code unit of 8..23 is a
\* lead byte (12..15) followed by a continuation byte (8..11), as in UTF-8.
ByteSpace == 16

\* the block size of the cipher
BlockSize == 4

\* process.env.ENCRYPTION_KEY of the running server, and the other keys a
\* stored envelope may have been made with
EncryptionKey == 5
CipherKeys == 1..(ByteSpace - 1)

\* the value of a token that is null or empty: the route tests !accessToken
NoToken == <<>>

\* CryptoJS.enc.Utf8.parse: the bytes of a string
RECURSIVE Utf8Parse(_)
Utf8Parse(text) ==
    IF text = <<>> THEN <<>>
    ELSE LET c == Head(text)
         IN (IF c < 8 THEN <<c>> ELSE <<12 + ((c - 8) \div 4), 8 + ((c - 8) % 4)>>)
            \o Utf8Parse(Tail(text))

\* the bytes are well-formed: every lead byte is followed by a continuation
\* byte and no continuation byte stands alone
RECURSIVE WellFormed(_)
WellFormed(bytes) ==
    IF bytes = <<>> THEN TRUE
    ELSE IF Head(bytes) < 8 THEN WellFormed(Tail(bytes))
    ELSE IF Head(bytes) >= 12
    THEN Len(bytes) >= 2 /\ bytes[2] \in 8..11 /\ WellFormed(Tail(Tail(bytes)))
    ELSE FALSE

\* the string of well-formed bytes
RECURSIVE Utf8Decode(_)
Utf8Decode(bytes) ==
    IF bytes = <<>> THEN <<>>
    ELSE IF Head(bytes) < 8 THEN <<Head(bytes)>> \o Utf8Decode(Tail(bytes))
    ELSE <<8 + 4 * (Head(bytes) - 12) + (bytes[2] - 8)>> \o Utf8Decode(Tail(Tail(bytes)))

\* a padding of zero bytes up to the end of the block
ZeroPad(bytes) ==
    bytes \o [i \in 1..(BlockSize - (Len(bytes) % BlockSize)) |-> 0]

\* CryptoJS.pad.Pkcs7.pad: n bytes of value n fill the last block, a whole
\* block of them when the data ends on a block boundary
Pad(bytes) ==
    LET n == BlockSize - (Len(bytes) % BlockSize)
    IN bytes \o [i \in 1..n |-> n]

\* CryptoJS.pad.Pkcs7.unpad: the last byte is taken for the number of
\* padding bytes, unchecked; nothing is left when it exceeds the data
Unpad(bytes) ==
    IF bytes = <<>> THEN <<>>
    ELSE LET sigBytes == Len(bytes) - bytes[Len(bytes)]
         IN IF sigBytes <= 0 THEN <<>> ELSE SubSeq(bytes, 1, sigBytes)

\* the block cipher under a key, and its inverse
Encipher(key, bytes) == [i \in 1..Len(bytes) |-> (bytes[i] + key) % ByteSpace]
Decipher(key, bytes) == [i \in 1..Len(bytes) |-> (bytes[i] + ByteSpace - key) % ByteSpace]

\* the envelope made with a key: CryptoJS.AES.encrypt(text, key).toString()
EncryptWith(key, text) == [salted |-> TRUE, bytes |-> Encipher(key, Pad(Utf8Parse(text)))]

\* a column that receives the token as it is
StorePlain(text) == [salted |-> FALSE, bytes |-> Utf8Parse(text)]

\* encrypt(text) of the running server
Encrypt(text) == EncryptWith(EncryptionKey, text)

\* decrypt(ciphertext): CryptoJS.AES.decrypt(ciphertext, key) never throws,
\* toString(CryptoJS.enc.Utf8) throws "Malformed UTF-8 data" on bytes that
\* are not well-formed
Decrypt(ciphertext) ==
    LET bytes == Unpad(Decipher(EncryptionKey, ciphertext.bytes))
    IN IF WellFormed(bytes) THEN [threw |-> FALSE, text |-> Utf8Decode(bytes)]
       ELSE [threw |-> TRUE, text |-> <<>>]

\* new Date().toISOString(): the time of the callback being served
Now == oauth.now

\* a createAccount that inserts a row whatever the table holds
InsertAccount(tokenData) ==
    Append(accounts, [vercel_user_id |-> tokenData.user_id,
                      vercel_team_id |-> tokenData.team_id,
                      access_token |-> Encrypt(tokenData.access_token),
                      updated_at |-> Now])

AccountOfUser(userId) == {i \in 1..Len(accounts) : accounts[i].vercel_user_id = userId}

\* the accounts table after the upsert of createAccount (onConflict: vercel_user_id)
UpsertAccount(tokenData) ==
    LET row == [vercel_user_id |-> tokenData.user_id,
                vercel_team_id |-> tokenData.team_id,
                access_token |-> Encrypt(tokenData.access_token),
                updated_at |-> Now]
        hit == AccountOfUser(tokenData.user_id)
    IN IF hit = {} THEN Append(accounts, row)
       ELSE [i \in 1..Len(accounts) |-> IF i \in hit THEN row ELSE accounts[i]]

\* a row of installations as inserted: the table gives it a uuid, the
\* columns not named are null
InstallationRow(n, installationId, accountId) ==
    [uuid |-> "ins_" \o NumStr(n),
     installation_id |-> installationId, account_id |-> accountId,
     app_name |-> "assistant-server", status |-> "pending",
     vercel_project_id |-> "none", vercel_project_name |-> "none",
     deployment_url |-> "none"]

\* the row createInstallation inserts
NewInstallation(installationId, accountId) ==
    InstallationRow(Len(installations) + 1, installationId, accountId)

\* getInstallationByUuid: the row whose uuid is the value given
GetInstallationByUuid(uuid, dbOk) ==
    LET hit == {i \in 1..Len(installations) : installations[i].uuid = uuid}
    IN IF dbOk /\ Cardinality(hit) = 1 THEN CHOOSE i \in hit : TRUE ELSE 0

\* a lookup that falls back to the first row of the table
AnyInstallation(installationId, dbOk) == IF Len(installations) > 0 THEN 1 ELSE 0

\* getInstallationById: the uuid of the single row with that configuration
\* id, 0 (null) when no row or several rows match or the query fails
GetInstallationById(installationId, dbOk) ==
    LET hit == {i \in 1..Len(installations) :
                   installations[i].installation_id = installationId}
    IN IF dbOk /\ Cardinality(hit) = 1 THEN CHOOSE i \in hit : TRUE ELSE 0

\* getAccountById: the id of the row, 0 (null) when absent or the query fails
GetAccountById(id, dbOk) == IF dbOk /\ id \in 1..Len(accounts) THEN id ELSE 0

\* getDecryptedToken: what decrypt returns; null (NoToken) when the row is
\* absent, the query fails or decrypt throws
GetDecryptedToken(accountId, dbOk) ==
    IF dbOk /\ accountId \in 1..Len(accounts)
    THEN LET plain == Decrypt(accounts[accountId].access_token)
         IN IF plain.threw THEN NoToken ELSE plain.text
    ELSE NoToken

\* an update at the start of a deploy that already records the success
InstalledBeforeDeploy(uuid, dbOk) ==
    IF dbOk /\ uuid \in 1..Len(installations)
    THEN [installations EXCEPT ![uuid].status = "installed"] ELSE installations

\* the installations table after updateInstallation(uuid, {status: 'pending'});
\* a failed update is swallowed and leaves the table as it was
MarkedPending(uuid, dbOk) ==
    IF dbOk /\ uuid \in 1..Len(installations)
    THEN [installations EXCEPT ![uuid].status = "pending"] ELSE installations

\* an update that records the success and nothing of the deployment
InstalledStatusOnly(uuid, projectId, projectName, url, dbOk) ==
    IF dbOk /\ uuid \in 1..Len(installations)
    THEN [installations EXCEPT ![uuid].status = "installed"] ELSE installations

\* an update that also keeps the OpenAI key of the request with the row
InstalledWithConfig(uuid, projectId, projectName, url, dbOk) ==
    IF dbOk /\ uuid \in 1..Len(installations)
    THEN [installations EXCEPT ![uuid].vercel_project_id = projectId,
                               ![uuid].vercel_project_name = req[Caller].env[1].value,
                               ![uuid].deployment_url = url,
                               ![uuid].status = "installed"]
    ELSE installations

\* the installations table after the update that records the deployment
MarkedInstalled(uuid, projectId, projectName, url, dbOk) ==
    IF dbOk /\ uuid \in 1..Len(installations)
    THEN [installations EXCEPT ![uuid].vercel_project_id = projectId,
                               ![uuid].vercel_project_name = projectName,
                               ![uuid].deployment_url = url,
                               ![uuid].status = "installed"]
    ELSE installations

\* the team the platform reports for a user
TeamOf(userId) == IF userId = "usr_1" THEN "team_1" ELSE "none"

\* what the token exchange may answer for these users
TokenDataOf(users) ==
    {[access_token |-> t, installation_id |-> c, user_id |-> u, team_id |-> TeamOf(u)] :
        t \in Tokens, c \in ConfigIds, u \in users}

TokenData == TokenDataOf(Users)

\* the id of the row createAccount returns
AccountIdOf(table, userId) == CHOOSE i \in 1..Len(table) : table[i].vercel_user_id = userId

\* the installations table rejects a second row with a configuration identifier
UniqueViolation(installationId) ==
    \E i \in 1..Len(installations) : installations[i].installation_id = installationId

\* GET /api/oauth/callback with a code, served in one piece: exchange, upsert
\* the account, insert the installation; failAt names the step that throws
\* ("none": no step throws unless the insert is rejected)
OAuthCallback(tokenData, failAt) ==
    /\ Len(installations) < MaxInstalls
    /\ failAt \in {"none", "exchange", "upsert", "insert"}
    /\ accounts' = IF failAt \in {"exchange", "upsert"} THEN accounts
                   ELSE UpsertAccount(tokenData)
    /\ installations' =
          IF failAt # "none" \/ UniqueViolation(tokenData.installation_id)
          THEN installations
          ELSE Append(installations,
                      NewInstallation(tokenData.installation_id,
                                      AccountIdOf(accounts', tokenData.user_id)))
    /\ UNCHANGED <<envCalls, setter, outbound, projEnv, deployments, req, started, oauth>>

----------------------------------------------------------------------------
(* POST /api/deploy: the responses of the route *)

ErrorResponse(status, error, message) ==
    [NoResponse EXCEPT !.status = status, !.error = error, !.message = message]

\* what deployFromGitHub threw: an AxiosError of the platform client, or a
\* plain Error with a message
AxiosThrown(err) == [kind |-> "axios", err |-> err, message |-> err.message]
PlainThrown(message) == [kind |-> "plain", err |-> NoError, message |-> message]

DefaultVercelMessage == <<"Deployment", "failed", "due", "to", "a", "Vercel", "API", "error.">>

\* e.message || e.error || String(e) of an element of response.data.errors
ErrorText(e) ==
    IF e.message # NoMsg THEN e.message
    ELSE IF e.error # NoMsg THEN e.error
    ELSE <<"[object", "Object]">>

VercelApiError(text) == <<"Vercel", "API", "error:">> \o text

\* the message of response.data.error when that is an object
ErrorObjectMessage(err) ==
    IF err.errMessage # NoMsg THEN err.errMessage
    ELSE IF err.errInnerKind = "object" /\ err.errInner # NoMsg THEN err.errInner
    ELSE IF err.errInnerKind = "string" /\ err.errInner # NoMsg THEN err.errInner
    ELSE IF err.errCode # "none"
    THEN <<"Vercel", "API", "error", "(", err.errCode, "):", "Unknown", "error">>
    ELSE DefaultVercelMessage

\* a body that is a string, or an object with one of the keys at least
HasData(err) ==
    \/ err.dataStr # NoMsg
    \/ err.dataMessage # NoMsg
    \/ err.errKind # "none"
    \/ err.errorDescription # NoMsg
    \/ err.errors # <<>>
    \/ err.dataJson # NoMsg

\* an inspection that reads error_description before any other key
DescriptionFirst(err) ==
    IF err.errorDescription # NoMsg THEN VercelApiError(err.errorDescription)
    ELSE IF err.dataStr # NoMsg THEN VercelApiError(err.dataStr)
    ELSE IF err.dataMessage # NoMsg THEN VercelApiError(err.dataMessage)
    ELSE IF err.errKind = "string" /\ err.errStr # NoMsg THEN VercelApiError(err.errStr)
    ELSE IF err.errKind = "object" THEN ErrorObjectMessage(err)
    ELSE DefaultVercelMessage

\* errorMessage after the inspection of response.data
BodyMessage(err) ==
    IF ~HasData(err) THEN DefaultVercelMessage
    ELSE IF err.dataStr # NoMsg THEN VercelApiError(err.dataStr)
    ELSE IF err.dataMessage # NoMsg THEN VercelApiError(err.dataMessage)
    ELSE IF err.errKind = "string" /\ err.errStr # NoMsg THEN VercelApiError(err.errStr)
    ELSE IF err.errKind = "object" THEN ErrorObjectMessage(err)
    ELSE IF err.errorDescription # NoMsg THEN VercelApiError(err.errorDescription)
    ELSE IF err.errors # <<>>
    THEN VercelApiError(Join([i \in 1..Len(err.errors) |-> ErrorText(err.errors[i])],
                             <<",">>))
    ELSE IF err.dataJson # NoMsg THEN VercelApiError(err.dataJson)
    ELSE DefaultVercelMessage

\* errorMessage after the overrides by HTTP status
VercelErrorMessage(err) ==
    LET m == BodyMessage(err)
    IN IF err.status = 401
       THEN <<"Authentication", "failed.", "Please", "reinstall", "the", "integration",
              "and", "try", "again.">>
       ELSE IF err.status = 403
       THEN <<"Permission", "denied.", "Please", "check", "your", "Vercel",
              "integration", "permissions.">>
       ELSE IF err.status = 404
       THEN <<"Repository", "or", "project", "not", "found.", "Please", "check", "your",
              "repository", "configuration.">>
       ELSE IF err.status = 409 \/ (err.status = 400 /\ err.errCode = "ENV_CONFLICT")
       THEN IF ~Includes(m, <<"already">>) /\ ~Includes(m, <<"exists">>)
               /\ ~Includes(m, <<"ENV_CONFLICT">>)
            THEN <<"A", "resource", "already", "exists", "(conflict).", "This", "may",
                   "be", "due", "to", "an", "existing", "environment", "variable.",
                   "The", "system", "will", "attempt", "to", "update", "it.">>
            ELSE m
       ELSE IF err.status # 0 /\ m = DefaultVercelMessage
       THEN <<"Vercel", "API", "returned", "an", "error", "(" \o NumStr(err.status) \o ").",
              "Please", "try", "again", "later.">>
       ELSE m

\* a catch block that answers every error with its fixed text
Reworded(thrown) ==
    ErrorResponse(500, "Deployment failed",
                  <<"An", "unexpected", "error", "occurred", "during", "deployment.">>)

\* the catch block of the route for what deployFromGitHub threw: an error
\* that carries a response is reported by VercelErrorMessage, any other by
\* its own message
DeployErrorResponse(thrown) ==
    IF thrown.kind = "axios" /\ thrown.err.status # 0
    THEN ErrorResponse(500, "Deployment failed", VercelErrorMessage(thrown.err))
    ELSE ErrorResponse(500, "Deployment failed",
                       IF thrown.message # NoMsg THEN thrown.message
                       ELSE <<"An", "unexpected", "error", "occurred", "during",
                              "deployment.">>)

\* the request of slot r ends with this response
Finish(r, response) == req' = [req EXCEPT ![r].pc = "done", ![r].response = response]

----------------------------------------------------------------------------
(* POST /api/deploy and deployFromGitHub, one action per await *)

\* the credential of the request body that is modelled (config.openai.apiKey)
Credentials == {"sk_user"}

\* two secrets generated once, when the module is loaded, and handed to
\* every request
GeneratedOnce(n) == "uuid_" \o NumStr(2 - (n % 2))

\* uuidv4(): a value no earlier call returned, n counting the calls
Uuid(n) == "uuid_" \o NumStr(n)

\* the envVariables of the route: a user credential and a generated secret
EnvVariables(apiKey, migrationSecretKey) ==
    <<[key |-> "OPENAI_API_KEY", value |-> apiKey],
      [key |-> "MIGRATION_SECRET_KEY", value |-> migrationSecretKey]>>

Call(op, project, key) == [op |-> op, project |-> project, key |-> key, value |-> "none"]

\* what the platform may answer a single call with
UpstreamErrors == {E401, ENetwork}
Selections == {<<>>, <<"prj_1", "prj_2">>}
Listings == {<<>>, <<"prj_2", "prj_1">>}

\* the platform's answer to the creation of key on project: a variable that
\* exists is a conflict, one that does not is created, and either may be
\* refused for another reason
PlatformAnswers(project, key) ==
    IF projEnv[project][key] # NoValue THEN {E409, E401} ELSE {Created, E401}

\* the required fields of DeploymentSchema, in the order parse visits them
RequiredFields ==
    <<"configurationId", "config.supabase.url", "config.supabase.serviceRoleKey",
      "config.database.host", "config.database.name", "config.database.user",
      "config.database.password", "config.openai.apiKey">>

\* a request body: text that parses as JSON or does not, and the required
\* fields the parsed object lacks
Body(json, absent) == [json |-> json, absent |-> absent]

Bodies ==
    {Body(TRUE, {}), Body(FALSE, {}), Body(TRUE, {"configurationId"}),
     Body(TRUE, {"config.supabase.url", "config.openai.apiKey"})}

\* error.errors of the ZodError: one issue per absent field
Issues(body) == SelectSeq(RequiredFields, LAMBDA f : f \in body.absent)

\* `Validation failed: ${validationMessages}. Please check your input and
\* try again.`
ValidationMessage(issues) ==
    <<"Validation", "failed:">>
    \o Join([i \in 1..Len(issues) |-> <<issues[i] \o ":", "Required">>], <<",">>)
    \o <<".", "Please", "check", "your", "input", "and", "try", "again.">>

\* what parsing and validating the body throws: nothing (NoMsg as kind
\* "none"), the SyntaxError of request.json(), or the ZodError
ParseOutcome(body) ==
    IF ~body.json
    THEN [kind |-> "SyntaxError", issues |-> <<>>]
    ELSE IF Issues(body) # <<>> THEN [kind |-> "ZodError", issues |-> Issues(body)]
    ELSE [kind |-> "none", issues |-> <<>>]

\* the response of the catch block to what parsing threw: the ZodError is
\* answered 400, the SyntaxError falls to the last branch
ParseErrorResponse(thrown) ==
    IF thrown.kind = "ZodError"
    THEN ErrorResponse(400, "Invalid request", ValidationMessage(thrown.issues))
    ELSE DeployErrorResponse(PlainThrown(<<"Unexpected", "token", "in", "JSON">>))

\* request.json() and DeploymentSchema.parse(body)
DeployStart(r, configurationId, body) ==
    /\ req[r].pc \in {"idle", "done"}
    /\ started < MaxDeploys
    /\ started' = started + 1
    /\ LET thrown == ParseOutcome(body)
           received == [IdleRequest EXCEPT !.seq = started + 1, !.body = body,
                                           !.configurationId =
                                               IF "configurationId" \in body.absent
                                                  \/ ~body.json
                                               THEN "none" ELSE configurationId]
       IN req' = [req EXCEPT ![r] =
                     IF thrown.kind = "none"
                     THEN [received EXCEPT !.pc = "getInstallation"]
                     ELSE [received EXCEPT !.pc = "done",
                                           !.response = ParseErrorResponse(thrown)]]
    /\ envCalls' = [envCalls EXCEPT ![r] = NoCalls]
    /\ setter' = [setter EXCEPT ![r] = IdleSetter]
    /\ outbound' = [outbound EXCEPT ![r] = <<>>]
    /\ UNCHANGED <<projEnv, deployments, accounts, installations, oauth>>

\* await getInstallationById(configurationId)
GetInstallation(r, dbOk) ==
    /\ req[r].pc = "getInstallation"
    /\ LET uuid == GetInstallationById(req[r].configurationId, dbOk)
       IN IF uuid = 0
          THEN Finish(r, ErrorResponse(404, "Installation not found",
                                       <<"Installation", "not", "found.">>))
          ELSE req' = [req EXCEPT ![r].pc = "getAccount", ![r].installation = uuid,
                                  ![r].accountId = installations[uuid].account_id]
    /\ UNCHANGED <<envCalls, setter, outbound, projEnv, deployments, accounts,
                   installations, started, oauth>>

\* await getAccountById(installation.account_id)
GetAccount(r, dbOk) ==
    /\ req[r].pc = "getAccount"
    /\ IF GetAccountById(req[r].accountId, dbOk) = 0
       THEN Finish(r, ErrorResponse(404, "Account not found", <<"Account", "not", "found.">>))
       ELSE req' = [req EXCEPT ![r].pc = "getToken"]
    /\ UNCHANGED <<envCalls, setter, outbound, projEnv, deployments, accounts,
                   installations, started, oauth>>

\* await getDecryptedToken(installation.account_id)
GetToken(r, dbOk) ==
    /\ req[r].pc = "getToken"
    /\ LET accessToken == GetDecryptedToken(req[r].accountId, dbOk)
       IN IF accessToken = NoToken
          THEN Finish(r, ErrorResponse(404, "Access token not found",
                                       <<"Access", "token", "not", "found.">>))
          ELSE req' = [req EXCEPT ![r].pc = "markPending", ![r].accessToken = accessToken]
    /\ UNCHANGED <<envCalls, setter, outbound, projEnv, deployments, accounts,
                   installations, started, oauth>>

\* await updateInstallation(uuid, {status: 'pending'}); then the client is
\* built, the secrets are generated and deployFromGitHub is entered
MarkPending(r, dbOk, apiKey) ==
    /\ req[r].pc = "markPending"
    /\ installations' = MarkedPending(req[r].installation, dbOk)
    /\ req' = [req EXCEPT ![r].pc = "getConfiguration",
                          ![r].migrationSecretKey = Uuid(2 * req[r].seq - 1),
                          ![r].jwtSecret = Uuid(2 * req[r].seq),
                          ![r].env = EnvVariables(apiKey, Uuid(2 * req[r].seq - 1))]
    /\ UNCHANGED <<envCalls, setter, outbound, projEnv, deployments, accounts, started, oauth>>

\* an error handler that makes the failed call once more
TryAgain(r, at, thrown) ==
    req' = [req EXCEPT ![r] = [at EXCEPT !.pc = req[r].pc]]

\* an error handler that notes the failure and carries on to the deployment
SwallowFailure(r, at, thrown) ==
    req' = [req EXCEPT ![r] = [at EXCEPT !.pc = "createDeployment", !.failedAt = req[r].pc]]

\* deployFromGitHub throws at the step request r is at; `at` is req[r] with
\* what the step learned. Nothing catches the error before the route, which
\* answers 500
Abort(r, at, thrown) ==
    req' = [req EXCEPT ![r] = [at EXCEPT !.pc = "done", !.failedAt = req[r].pc,
                                         !.thrown = thrown,
                                         !.response = DeployErrorResponse(thrown)]]

ConfigAnswers ==
    {[error |-> e, projects |-> <<>>] : e \in UpstreamErrors}
    \cup {[error |-> NoError, projects |-> sel] : sel \in Selections}

ListingAnswers ==
    {[error |-> e, projects |-> <<>>] : e \in UpstreamErrors}
    \cup {[error |-> NoError, projects |-> l] : l \in Listings}

\* a selection that takes the last project of the list
LastProject(projects) == projects[Len(projects)]

\* config.projects[0], projects[0].id
FirstProject(projects) == projects[1]

\* the project is resolved: setEnvironmentVariables is entered in the same turn
EnterSetter(r, at, log, projectId) ==
    /\ IssueAll(r, log, projectId, req[r].env)
    /\ req' = [req EXCEPT ![r] = [at EXCEPT !.pc = "setEnvironmentVariables",
                                            !.projectId = projectId]]

\* await getIntegrationConfiguration(configurationId), then the selection
GetConfiguration(r, answer) ==
    /\ req[r].pc = "getConfiguration"
    /\ LET log == Append(outbound[r],
                         Call("getIntegrationConfiguration", "none",
                              installations[req[r].installation].installation_id))
           at == [req[r] EXCEPT !.config = <<answer.projects>>]
       IN IF answer.error # NoError
          THEN /\ Abort(r, req[r], AxiosThrown(answer.error))
               /\ outbound' = [outbound EXCEPT ![r] = log]
               /\ UNCHANGED <<envCalls, setter>>
          ELSE IF Len(answer.projects) > 0
          THEN EnterSetter(r, at, log, FirstProject(answer.projects))
          ELSE /\ req' = [req EXCEPT ![r] = [at EXCEPT !.pc = "getProjects"]]
               /\ outbound' = [outbound EXCEPT ![r] = log]
               /\ UNCHANGED <<envCalls, setter>>
    /\ UNCHANGED <<projEnv, deployments, accounts, installations, started, oauth>>

\* await getProjects(), when the configuration selects no project
GetProjects(r, answer) ==
    /\ req[r].pc = "getProjects"
    /\ LET log == Append(outbound[r], Call("getProjects", "none", "none"))
           at == [req[r] EXCEPT !.projects = <<answer.projects>>]
       IN IF answer.error # NoError
          THEN /\ Abort(r, req[r], AxiosThrown(answer.error))
               /\ outbound' = [outbound EXCEPT ![r] = log]
               /\ UNCHANGED <<envCalls, setter>>
          ELSE IF Len(answer.projects) = 0
          THEN /\ Abort(r, at, PlainThrown(<<"No", "projects", "found", "in", "the",
                                             "account">>))
               /\ outbound' = [outbound EXCEPT ![r] = log]
               /\ UNCHANGED <<envCalls, setter>>
          ELSE EnterSetter(r, at, log, FirstProject(answer.projects))
    /\ UNCHANGED <<projEnv, deployments, accounts, installations, started, oauth>>

\* the platform answers one creation call of the batch of request r
CreateEnvAnswered(r, i, resp) ==
    /\ req[r].pc = "setEnvironmentVariables"
    /\ Respond(r, i, resp)
    /\ resp \in PlatformAnswers(setter[r].projectId, envCalls[r][i].key)
    /\ UNCHANGED <<setter, outbound, deployments, accounts, installations, req, started, oauth>>

\* a call of the setter that is not awaited: the flow goes on at once
SetterNotAwaited(r) ==
    /\ req[r].pc = "setEnvironmentVariables"
    /\ req' = [req EXCEPT ![r].pc = "getGitHubRepoId"]
    /\ UNCHANGED <<envCalls, setter, outbound, projEnv, deployments, accounts,
                   installations, started, oauth>>

\* await setEnvironmentVariables(projectId, envVariables) resumes
SetterResumes(r) ==
    /\ req[r].pc = "setEnvironmentVariables"
    /\ SetterJoin(r)
    /\ IF setter'[r].state = "threw"
       THEN Abort(r, req[r], PlainThrown(setter'[r].thrown))
       ELSE req' = [req EXCEPT ![r].pc = "getGitHubRepoId"]
    /\ UNCHANGED <<envCalls, outbound, projEnv, deployments, accounts, installations,
                   started, oauth>>

\* await getGitHubRepoId(repoPath): the id of the process environment when
\* set, the answer of the source host otherwise
GetGitHubRepoId(r, envRepoId, found) ==
    /\ req[r].pc = "getGitHubRepoId"
    /\ IF envRepoId # "none"
       THEN /\ req' = [req EXCEPT ![r].pc = "createDeployment", ![r].repoId = envRepoId]
            /\ UNCHANGED outbound
       ELSE /\ outbound' = [outbound EXCEPT ![r] =
                               Append(@, Call("getGitHubRepo", "none", "assistant-server"))]
            /\ IF found
               THEN req' = [req EXCEPT ![r].pc = "createDeployment", ![r].repoId = "1001"]
               ELSE Abort(r, req[r], PlainThrown(<<"Failed", "to", "get", "GitHub",
                                                   "repository", "ID", "for",
                                                   "assistant-server">>))
    /\ UNCHANGED <<envCalls, setter, projEnv, deployments, accounts, installations, started, oauth>>

DeploymentId(n) == "dpl_" \o NumStr(n)
DeploymentUrl(n) == "dpl_" \o NumStr(n) \o ".vercel.app"

\* await this.client.post('/v13/deployments', ...)
CreateDeployment(r, error) ==
    /\ req[r].pc = "createDeployment"
    /\ outbound' = [outbound EXCEPT ![r] =
                       Append(@, Call("createDeployment", req[r].projectId, req[r].repoId))]
    /\ IF error # NoError
       THEN /\ Abort(r, req[r], AxiosThrown(error))
            /\ UNCHANGED deployments
       ELSE LET n == Len(deployments) + 1
            IN /\ deployments' = Append(deployments,
                                        [id |-> DeploymentId(n), url |-> DeploymentUrl(n),
                                         project |-> req[r].projectId])
               /\ req' = [req EXCEPT ![r].pc = "markInstalled",
                                     ![r].deployment = [id |-> DeploymentId(n),
                                                        url |-> DeploymentUrl(n)]]
    /\ UNCHANGED <<envCalls, setter, projEnv, accounts, installations, started, oauth>>

\* await updateInstallation(uuid, {..., status: 'installed'}), then the
\* success response
MarkInstalled(r, dbOk) ==
    /\ req[r].pc = "markInstalled"
    /\ installations' = MarkedInstalled(req[r].installation, req[r].projectId,
                                        "assistant-server", req[r].deployment.url, dbOk)
    /\ Finish(r, [status |-> 200, error |-> "none", message |-> NoMsg,
                  deploymentId |-> req[r].deployment.id,
                  deploymentUrl |-> req[r].deployment.url,
                  projectName |-> "assistant-server",
                  migrationSecretKey |-> req[r].migrationSecretKey])
    /\ UNCHANGED <<envCalls, setter, outbound, projEnv, deployments, accounts, started, oauth>>

\* Spec serves the deploy requests one after another, in one slot
Serving == {Caller}

\* the steps of the deploy request of slot r
DeployNext(r) ==
    \/ \E c \in ConfigIds, body \in Bodies : DeployStart(r, c, body)
    \/ \E dbOk \in BOOLEAN : GetInstallation(r, dbOk)
    \/ \E dbOk \in BOOLEAN : GetAccount(r, dbOk)
    \/ \E dbOk \in BOOLEAN : GetToken(r, dbOk)
    \/ \E dbOk \in BOOLEAN, apiKey \in Credentials : MarkPending(r, dbOk, apiKey)
    \/ \E answer \in ConfigAnswers : GetConfiguration(r, answer)
    \/ \E answer \in ListingAnswers : GetProjects(r, answer)
    \/ \E i \in 1..Len(envCalls[r]), resp \in {Created} \cup CreateErrors :
          CreateEnvAnswered(r, i, resp)
    \/ SetterResumes(r)
    \/ \E envRepoId \in {"none", "1001"}, found \in BOOLEAN :
          GetGitHubRepoId(r, envRepoId, found)
    \/ \E error \in {NoError} \cup UpstreamErrors : CreateDeployment(r, error)
    \/ \E dbOk \in BOOLEAN : MarkInstalled(r, dbOk)

Next ==
    \/ \E tokenData \in TokenData, failAt \in {"none", "exchange", "upsert", "insert"} :
          OAuthCallback(tokenData, failAt)
    \/ \E r \in Serving : DeployNext(r)

Spec == Init /\ [][Next]_vars

----------------------------------------------------------------------------
(* Deploy requests against a row stored under any key *)

\* the tables after one OAuth callback served by a process whose
\* ENCRYPTION_KEY was key: the server now running may have another
StoredUnder(key, token) ==
    /\ accounts = <<[vercel_user_id |-> "usr_1", vercel_team_id |-> TeamOf("usr_1"),
                     access_token |-> EncryptWith(key, token), updated_at |-> 0]>>
    /\ installations = <<InstallationRow(1, "cfg_1", 1)>>

InitStored ==
    /\ \E key \in CipherKeys, token \in Tokens : StoredUnder(key, token)
    /\ envCalls = [r \in Reqs |-> NoCalls]
    /\ setter = [r \in Reqs |-> IdleSetter]
    /\ outbound = [r \in Reqs |-> <<>>]
    /\ projEnv = [p \in Projects |-> EmptyProject]
    /\ deployments = <<>>
    /\ req = [r \in Reqs |-> IdleRequest]
    /\ started = 0
    /\ oauth = IdleCallback

NextStored == \E r \in Serving : DeployNext(r)

SpecStored == InitStored /\ [][NextStored]_vars

----------------------------------------------------------------------------
(* Deploy requests whose platform calls fail with any status and body *)

Statuses == {400, 401, 403, 404, 409, 500}

\* response.data.error of the bodies: absent, a string, an object with a
\* message, with a code only, with the conflict code, with a nested error
ErrorFields ==
    {[errKind |-> "none", errStr |-> NoMsg, errCode |-> "none", errMessage |-> NoMsg,
      errInnerKind |-> "none", errInner |-> NoMsg],
     [errKind |-> "string", errStr |-> <<"forbidden">>, errCode |-> "none",
      errMessage |-> NoMsg, errInnerKind |-> "none", errInner |-> NoMsg],
     [errKind |-> "object", errStr |-> NoMsg, errCode |-> "bad_request",
      errMessage |-> <<"Invalid", "project">>, errInnerKind |-> "none", errInner |-> NoMsg],
     [errKind |-> "object", errStr |-> NoMsg, errCode |-> "ENV_CONFLICT",
      errMessage |-> NoMsg, errInnerKind |-> "none", errInner |-> NoMsg],
     [errKind |-> "object", errStr |-> NoMsg, errCode |-> "none",
      errMessage |-> NoMsg, errInnerKind |-> "object", errInner |-> <<"quota", "exceeded">>],
     [errKind |-> "object", errStr |-> NoMsg, errCode |-> "none",
      errMessage |-> NoMsg, errInnerKind |-> "none", errInner |-> NoMsg]}

\* the AxiosError of a response with this status and an object body
ObjectBody(status, dataMessage, e, errorDescription, errors, dataJson) ==
    [MkError(status, e.errKind, e.errStr, e.errCode, e.errMessage, dataMessage,
             RequestFailed(status))
       EXCEPT !.errInnerKind = e.errInnerKind, !.errInner = e.errInner,
              !.errorDescription = errorDescription, !.errors = errors,
              !.dataJson = dataJson]

\* the AxiosError of a response with this status and a string body
StringBody(status, text) ==
    [MkError(status, "none", NoMsg, "none", NoMsg, NoMsg, RequestFailed(status))
       EXCEPT !.dataStr = text]

\* the errors a call of the platform client may reject with
BodyShapes ==
    {StringBody(st, <<"Bad", "Gateway">>) : st \in Statuses}
    \cup {ObjectBody(st, m, e, d, es, IF m = NoMsg /\ e.errKind = "none" /\ d = NoMsg
                                         /\ es = <<>> /\ j THEN <<"{\"code\":7}">>
                                      ELSE NoMsg) :
            st \in Statuses, m \in {NoMsg, <<"Not", "allowed">>}, e \in ErrorFields,
            d \in {NoMsg, <<"invalid", "grant">>},
            es \in {<<>>, <<[message |-> <<"too", "long">>, error |-> NoMsg],
                            [message |-> NoMsg, error |-> <<"missing", "ref">>]>>},
            j \in BOOLEAN}

\* a valid deploy request for the stored installation, whose calls of the
\* platform client succeed or fail with any of the shapes
NextUpstream ==
    \E r \in Serving :
        \/ DeployStart(r, "cfg_1", Body(TRUE, {}))
        \/ GetInstallation(r, TRUE)
        \/ GetAccount(r, TRUE)
        \/ GetToken(r, TRUE)
        \/ \E apiKey \in Credentials : MarkPending(r, TRUE, apiKey)
        \/ \E answer \in {[error |-> e, projects |-> <<>>] : e \in BodyShapes}
                         \cup {[error |-> NoError, projects |-> sel] : sel \in Selections} :
              GetConfiguration(r, answer)
        \/ \E answer \in {[error |-> e, projects |-> <<>>] : e \in BodyShapes}
                         \cup {[error |-> NoError, projects |-> l] : l \in Listings} :
              GetProjects(r, answer)
        \/ \E i \in 1..Len(envCalls[r]) : CreateEnvAnswered(r, i, Created)
        \/ SetterResumes(r)
        \/ GetGitHubRepoId(r, "1001", TRUE)
        \/ \E error \in {NoError} \cup BodyShapes : CreateDeployment(r, error)
        \/ MarkInstalled(r, TRUE)

InitUpstream ==
    /\ \E token \in Tokens : StoredUnder(EncryptionKey, token)
    /\ envCalls = [r \in Reqs |-> NoCalls]
    /\ setter = [r \in Reqs |-> IdleSetter]
    /\ outbound = [r \in Reqs |-> <<>>]
    /\ projEnv = [p \in Projects |-> EmptyProject]
    /\ deployments = <<>>
    /\ req = [r \in Reqs |-> IdleRequest]
    /\ started = 0
    /\ oauth = IdleCallback

SpecUpstream == InitUpstream /\ [][NextUpstream]_vars

----------------------------------------------------------------------------
(* GET /api/oauth/callback, one action per await, and the requests served *)
(* one at a time                                                          *)

Codes == {"code_1"}
Identities == {"usr_1", "usr_2"}

\* searchParams.get('next'): null ("none"), empty, or a URL
Nexts == {"none", "", "next_url"}

CallbackError(status, error) == [NoCallbackResponse EXCEPT !.status = status, !.error = error]

\* the catch block of the callback
FailedOAuthFlow == CallbackError(500, "Failed to complete OAuth flow")

\* a handler that passes whatever searchParams.get('code') gave to the exchange
CallbackStartUnchecked(code, next) ==
    /\ oauth.pc = "idle"
    /\ oauth.now < MaxCallbacks
    /\ oauth' = [IdleCallback EXCEPT !.pc = "exchangeOAuthCode", !.code = code,
                                     !.next = next, !.now = oauth.now + 1]
    /\ UNCHANGED <<envCalls, setter, outbound, projEnv, deployments, accounts,
                   installations, req, started>>

\* searchParams.get('code') and the test of it; code "none" is a request
\* without the parameter
CallbackStart(code, next) ==
    /\ oauth.pc = "idle"
    /\ \A r \in Serving : req[r].pc = "idle"
    /\ Len(installations) < MaxInstalls
    /\ oauth.now < MaxCallbacks
    /\ oauth' = IF code = "none"
                THEN [IdleCallback EXCEPT !.pc = "done", !.now = oauth.now + 1,
                                          !.next = next,
                                          !.response =
                                              CallbackError(400, "Missing authorization code")]
                ELSE [IdleCallback EXCEPT !.pc = "exchangeOAuthCode", !.code = code,
                                          !.next = next, !.now = oauth.now + 1]
    /\ UNCHANGED <<envCalls, setter, outbound, projEnv, deployments, accounts,
                   installations, req, started>>

\* await VercelAPIClient.exchangeOAuthCode(code)
ExchangeOAuthCode(answer) ==
    /\ oauth.pc = "exchangeOAuthCode"
    /\ LET log == Append(oauth.exchanges, [op |-> "exchangeOAuthCode", code |-> oauth.code])
       IN oauth' = IF answer.error # NoError
                   THEN [oauth EXCEPT !.pc = "done", !.exchanges = log,
                                      !.response = FailedOAuthFlow]
                   ELSE [oauth EXCEPT !.pc = "createAccount", !.exchanges = log,
                                      !.tokenData = answer.data]
    /\ UNCHANGED <<envCalls, setter, outbound, projEnv, deployments, accounts,
                   installations, req, started>>

\* await createAccount(tokenData)
CreateAccount(dbOk) ==
    /\ oauth.pc = "createAccount"
    /\ IF dbOk
       THEN /\ accounts' = UpsertAccount(oauth.tokenData)
            /\ oauth' = [oauth EXCEPT !.pc = "createInstallation",
                                      !.accountId =
                                          AccountIdOf(accounts', oauth.tokenData.user_id)]
       ELSE /\ oauth' = [oauth EXCEPT !.pc = "done", !.response = FailedOAuthFlow]
            /\ UNCHANGED accounts
    /\ UNCHANGED <<envCalls, setter, outbound, projEnv, deployments, installations, req,
                   started>>

\* NextResponse.redirect(configUrl): /configure with the configurationId,
\* and with next when the request had one that is not empty
ConfigureRedirect(configurationId, next) ==
    [status |-> 307, error |-> "none", location |-> configurationId,
     next |-> IF next \in {"none", ""} THEN "none" ELSE next]

\* a handler that takes the token back when the insert fails
UndoesAccount(dbOk) ==
    /\ oauth.pc = "createInstallation"
    /\ IF dbOk /\ ~UniqueViolation(oauth.tokenData.installation_id)
       THEN /\ installations' =
                  Append(installations,
                         NewInstallation(oauth.tokenData.installation_id, oauth.accountId))
            /\ oauth' = [oauth EXCEPT !.pc = "done",
                                      !.installation = Len(installations) + 1,
                                      !.response =
                                          ConfigureRedirect(oauth.tokenData.installation_id,
                                                            oauth.next)]
            /\ UNCHANGED accounts
       ELSE /\ oauth' = [oauth EXCEPT !.pc = "done", !.response = FailedOAuthFlow]
            /\ accounts' = [accounts EXCEPT ![oauth.accountId].access_token =
                                                Encrypt(NoToken)]
            /\ UNCHANGED installations
    /\ UNCHANGED <<envCalls, setter, outbound, projEnv, deployments, req, started>>

\* a handler that redirects whatever became of the insert
RedirectsAnyway(dbOk) ==
    /\ oauth.pc = "createInstallation"
    /\ oauth' = [oauth EXCEPT !.pc = "done",
                              !.response = ConfigureRedirect(oauth.tokenData.installation_id,
                                                             oauth.next)]
    /\ UNCHANGED <<envCalls, setter, outbound, projEnv, deployments, accounts,
                   installations, req, started>>

\* await createInstallation(tokenData.installation_id, account.id), then
\* the redirect to the configuration page
CreateInstallation(dbOk) ==
    /\ oauth.pc = "createInstallation"
    /\ IF dbOk /\ ~UniqueViolation(oauth.tokenData.installation_id)
       THEN /\ installations' =
                  Append(installations,
                         NewInstallation(oauth.tokenData.installation_id, oauth.accountId))
            /\ oauth' = [oauth EXCEPT !.pc = "done",
                                      !.installation = Len(installations) + 1,
                                      !.response =
                                          ConfigureRedirect(oauth.tokenData.installation_id,
                                                            oauth.next)]
       ELSE /\ oauth' = [oauth EXCEPT !.pc = "done", !.response = FailedOAuthFlow]
            /\ UNCHANGED installations
    /\ UNCHANGED <<envCalls, setter, outbound, projEnv, deployments, accounts, req,
                   started>>

\* the response is sent and the request is over
CallbackReturn ==
    /\ oauth.pc = "done"
    /\ oauth' = [IdleCallback EXCEPT !.now = oauth.now]
    /\ UNCHANGED <<envCalls, setter, outbound, projEnv, deployments, accounts,
                   installations, req, started>>

\* what the token exchange may answer: an error, or the token of one of
\* these users
ExchangeAnswers(users) ==
    {[error |-> e, data |-> NoTokenData] : e \in UpstreamErrors}
    \cup {[error |-> NoError, data |-> d] : d \in TokenDataOf(users)}

\* a deploy request is served while no callback is
ServeDeploy(r) == oauth.pc = "idle" /\ DeployNext(r)

\* the response of the deploy request is sent and the request is over
DeployReturn(r) ==
    /\ req[r].pc = "done"
    /\ req' = [req EXCEPT ![r] = IdleRequest]
    /\ envCalls' = [envCalls EXCEPT ![r] = NoCalls]
    /\ setter' = [setter EXCEPT ![r] = IdleSetter]
    /\ outbound' = [outbound EXCEPT ![r] = <<>>]
    /\ UNCHANGED <<projEnv, deployments, accounts, installations, started, oauth>>

\* callbacks of two identities, one after another
NextCallbacks ==
    \/ \E code \in Codes \cup {"none"}, next \in Nexts : CallbackStart(code, next)
    \/ \E answer \in ExchangeAnswers(Identities) : ExchangeOAuthCode(answer)
    \/ \E dbOk \in BOOLEAN : CreateAccount(dbOk)
    \/ \E dbOk \in BOOLEAN : CreateInstallation(dbOk)
    \/ CallbackReturn

SpecCallbacks == Init /\ [][NextCallbacks]_vars

\* callbacks and deploy requests of one identity, one after another
NextServe ==
    \/ \E code \in Codes \cup {"none"} : CallbackStart(code, "none")
    \/ \E answer \in ExchangeAnswers(Users) : ExchangeOAuthCode(answer)
    \/ \E dbOk \in BOOLEAN : CreateAccount(dbOk)
    \/ \E dbOk \in BOOLEAN : CreateInstallation(dbOk)
    \/ CallbackReturn
    \/ \E r \in Serving : ServeDeploy(r)
    \/ \E r \in Serving : DeployReturn(r)

SpecServe == Init /\ [][NextServe]_vars

----------------------------------------------------------------------------
(* A token of any text: exchanged, stored, read back, handed to the client *)

\* code units of one byte and of two bytes
Alphabet == {1, 3, 9}

\* the access tokens the exchange may return
Plaintexts == UNION {[1..n -> Alphabet] : n \in 0..MaxText}

\* callbacks and deploy requests of one identity and one configuration;
\* the deploy request ends at its first call of the platform
NextCipher ==
    \/ CallbackStart("code_1", "none")
    \/ \E x \in Plaintexts :
          ExchangeOAuthCode([error |-> NoError,
                             data |-> [access_token |-> x, installation_id |-> "cfg_1",
                                       user_id |-> "usr_1", team_id |-> TeamOf("usr_1")]])
    \/ CreateAccount(TRUE)
    \/ \E dbOk \in BOOLEAN : CreateInstallation(dbOk)
    \/ CallbackReturn
    \/ \E r \in Serving : oauth.pc = "idle" /\ DeployStart(r, "cfg_1", Body(TRUE, {}))
    \/ \E r \in Serving : GetInstallation(r, TRUE)
    \/ \E r \in Serving : GetAccount(r, TRUE)
    \/ \E r \in Serving : GetToken(r, TRUE)
    \/ \E r \in Serving, apiKey \in Credentials : MarkPending(r, TRUE, apiKey)
    \/ \E r \in Serving : GetConfiguration(r, [error |-> E401, projects |-> <<>>])
    \/ \E r \in Serving : DeployReturn(r)

SpecCipher == Init /\ [][NextCipher]_vars

----------------------------------------------------------------------------
(* Two deploy requests at the same time *)

\* a platform that refuses a variable that exists as a conflict and creates
\* any other
ConflictOrCreated(project, key) ==
    IF projEnv[project][key] # NoValue THEN E409 ELSE Created

\* the requests of both slots are served at once, one await at a time; the
\* database and the platform fail at nothing but the conflict
NextRace ==
    \E r \in Reqs :
        \/ DeployStart(r, "cfg_1", Body(TRUE, {}))
        \/ GetInstallation(r, TRUE)
        \/ GetAccount(r, TRUE)
        \/ GetToken(r, TRUE)
        \/ \E apiKey \in Credentials : MarkPending(r, TRUE, apiKey)
        \/ GetConfiguration(r, [error |-> NoError, projects |-> <<"prj_1", "prj_2">>])
        \/ \E i \in 1..Len(envCalls[r]) :
              CreateEnvAnswered(r, i, ConflictOrCreated(setter[r].projectId,
                                                        envCalls[r][i].key))
        \/ SetterResumes(r)
        \/ GetGitHubRepoId(r, "1001", TRUE)
        \/ CreateDeployment(r, NoError)
        \/ MarkInstalled(r, TRUE)

SpecRace == InitUpstream /\ [][NextRace]_vars

----------------------------------------------------------------------------
(* Claims about the batch setter *)

SetterDone(r) == setter[r].state \in {"returned", "threw"}

Failed(call) == call.st = "fulfilled" /\ ~call.success
Succeeded(call) == call.st = "fulfilled" /\ call.success

CallIdx(r) == 1..Len(envCalls[r])

\* the creation calls request r has issued for key k
PostsOf(r, k) ==
    {i \in 1..Len(outbound[r]) : outbound[r][i].op = "createEnv" /\ outbound[r][i].key = k}

Lists(message, k) == k \in Range(message)

\* C1: every creation call of a batch is issued when the setter is entered,
\* before any outcome is known; a failed call leaves its siblings in flight
\* or settled with their own outcome; and the setter returns or raises only
\* when every call of the batch has settled.
C1_FanOutWaitsForAll ==
    \A r \in Reqs :
        /\ setter[r].state # "idle" =>
              /\ Len(envCalls[r]) = Len(setter[r].variables)
              /\ \A i \in CallIdx(r) :
                    /\ envCalls[r][i].key = setter[r].variables[i].key
                    /\ Cardinality(PostsOf(r, envCalls[r][i].key)) = 1
        /\ SetterDone(r) => \A i \in CallIdx(r) : envCalls[r][i].st = "fulfilled"

\* a batch failed on its first call and still created its second variable
C1_Witness ==
    /\ setter[Caller].state = "threw"
    /\ Len(envCalls[Caller]) >= 2
    /\ Failed(envCalls[Caller][1])
    /\ Succeeded(envCalls[Caller][2])

\* the classification of a failed creation call as the code performs it:
\* 409, or 400 with code ENV_CONFLICT or with "already exists" in the
\* message of the response's error object
ConflictResponse(error) ==
    \/ error.status = 409
    \/ error.status = 400 /\ error.errCode = "ENV_CONFLICT"
    \/ error.status = 400 /\ error.errKind = "object"
       /\ Includes(error.errMessage, AlreadyExists)

ConflictCalls(r) == {i \in CallIdx(r) : Failed(envCalls[r][i]) /\ ConflictResponse(envCalls[r][i].error)}

\* C2: when at least one creation call of a batch failed with a conflict the
\* setter raises the "already exist" error, whose message lists exactly the
\* keys of the conflicting calls, whatever the other calls did.
C2_ConflictKeysListed ==
    \A r \in Reqs :
        (SetterDone(r) /\ ConflictCalls(r) # {}) =>
            /\ setter[r].state = "threw"
            /\ SubSeq(setter[r].thrown, 1, 2) = <<"Cannot", "set">>
            /\ Includes(setter[r].thrown, <<"already", "exist">>)
            /\ \A i \in CallIdx(r) :
                  Lists(setter[r].thrown, envCalls[r][i].key) <=> i \in ConflictCalls(r)

\* a batch with a conflict, a non-conflict failure and a success has raised
C2_Witness ==
    /\ setter[Caller].state = "threw"
    /\ ConflictCalls(Caller) # {}
    /\ \E i \in CallIdx(Caller) : Failed(envCalls[Caller][i]) /\ i \notin ConflictCalls(Caller)
    /\ \E i \in CallIdx(Caller) : Succeeded(envCalls[Caller][i])

FailedCalls(r) == {i \in CallIdx(r) : Failed(envCalls[r][i])}

\* the message a failure carries
MessageOf(r, i) == ExtractErrorMessage(envCalls[r][i].error)

DistinctMessages(r) == {MessageOf(r, i) : i \in FailedCalls(r)}

Frequency(r, m) == Cardinality({i \in FailedCalls(r) : MessageOf(r, i) = m})

MostFrequent(r) ==
    {m \in DistinctMessages(r) :
        \A m2 \in DistinctMessages(r) : Frequency(r, m) >= Frequency(r, m2)}

EndsWith(s, t) == Len(s) >= Len(t) /\ SubSeq(s, Len(s) - Len(t) + 1, Len(s)) = t

\* C3: when every failure of a batch is a non-conflict failure the setter
\* raises an error that lists every failed key, shows every distinct message
\* when there are at most three, and otherwise shows the message shared by
\* the largest number of failed keys.
C3_MostFrequentShown ==
    \A r \in Reqs :
        (SetterDone(r) /\ FailedCalls(r) # {} /\ ConflictCalls(r) = {}) =>
            /\ setter[r].state = "threw"
            /\ \A i \in FailedCalls(r) : Lists(setter[r].thrown, envCalls[r][i].key)
            /\ Cardinality(DistinctMessages(r)) <= 3 =>
                  \A m \in DistinctMessages(r) : Includes(setter[r].thrown, <<"-">> \o m)
            /\ Cardinality(DistinctMessages(r)) > 3 =>
                  \E m \in MostFrequent(r) :
                      EndsWith(setter[r].thrown, <<"Most", "common", "error:">> \o m)

\* the classification as the claim words it: clause (iii) holds for any
\* status whose error message contains "already exists"
ClaimedConflict(error) ==
    \/ error.status = 409
    \/ error.status = 400 /\ error.errCode = "ENV_CONFLICT"
    \/ Includes(ExtractErrorMessage(error), AlreadyExists)

\* C4 as stated: a failed call is a conflict exactly when its status is 409,
\* or 400 with code ENV_CONFLICT, or its error message contains "already
\* exists".
C4_ClaimedClassification ==
    \A r \in Reqs : \A i \in FailedCalls(r) :
        envCalls[r][i].isConflict <=> ClaimedConflict(envCalls[r][i].error)

\* C4 amended: a failed call is a conflict exactly when its status is 409,
\* or its status is 400 and the response's error object carries the code
\* ENV_CONFLICT or a message containing "already exists"; isConflictError
\* decides the same way.
C4_Classification ==
    \A r \in Reqs : \A i \in FailedCalls(r) :
        /\ envCalls[r][i].isConflict <=> ConflictResponse(envCalls[r][i].error)
        /\ IsConflictError(envCalls[r][i].error) <=> ConflictResponse(envCalls[r][i].error)

\* one batch holds a 400 "already exists" taken for a conflict and a 500
\* "already exists" taken for another failure
C4_Witness ==
    \E i, j \in CallIdx(Caller) :
        /\ Failed(envCalls[Caller][i]) /\ envCalls[Caller][i].error = E400Exists
        /\ envCalls[Caller][i].isConflict
        /\ Failed(envCalls[Caller][j]) /\ envCalls[Caller][j].error = E500Exists
        /\ ~envCalls[Caller][j].isConflict

\* C5: when no creation call of a batch fails the setter returns without
\* raising, every key of the input mapping was posted exactly once, and
\* every variable of the batch is stored on the target project.
C5_AllCreated ==
    \A r \in Reqs :
        (SetterDone(r) /\ FailedCalls(r) = {}) =>
            /\ setter[r].state = "returned"
            /\ \A j \in 1..Len(setter[r].variables) :
                  /\ Cardinality(PostsOf(r, setter[r].variables[j].key)) = 1
                  /\ projEnv[setter[r].projectId][setter[r].variables[j].key] =
                         setter[r].variables[j].value

\* a batch of at least two variables returned
C5_Witness ==
    /\ setter[Caller].state = "returned"
    /\ Len(setter[Caller].variables) >= 2
    /\ \A i \in CallIdx(Caller) : Succeeded(envCalls[Caller][i])

----------------------------------------------------------------------------
(* Claims about the deployment trigger and the deploy route *)

LogIdx(r) == 1..Len(outbound[r])

OpsIn(r, op) == {i \in LogIdx(r) : outbound[r][i].op = op}

\* the position of an outbound call in the sequence of deployFromGitHub
OpRank(op) ==
    CASE op = "getIntegrationConfiguration" -> 1
      [] op = "getProjects" -> 2
      [] op = "createEnv" -> 3
      [] op = "getGitHubRepo" -> 4
      [] op = "createDeployment" -> 5

\* the position of the step a request is at
StepRank(pc) ==
    CASE pc = "getConfiguration" -> 1
      [] pc = "getProjects" -> 2
      [] pc = "setEnvironmentVariables" -> 3
      [] pc = "getGitHubRepoId" -> 4
      [] pc = "createDeployment" -> 5

DeploySteps ==
    {"getConfiguration", "getProjects", "setEnvironmentVariables", "getGitHubRepoId",
     "createDeployment"}

\* C6: a failure at any step of deployFromGitHub ends the request with an
\* error: the calls it has made are those of the failed step and the steps
\* before it, none of them deletes anything, no deployment is recorded for
\* it unless the failed step is the deployment itself (which records none),
\* and every variable a creation call of the attempt stored is still on the
\* project with the value it was given.
C6_FailureAborts ==
    \A r \in Reqs :
        /\ setter[r].state = "threw" => req[r].failedAt = "setEnvironmentVariables"
        /\ req[r].failedAt # "none" =>
              /\ req[r].failedAt \in DeploySteps
              /\ req[r].pc = "done"
              /\ req[r].response.status = 500
              /\ req[r].deployment.id = "none"
              /\ \A i \in LogIdx(r) :
                    /\ outbound[r][i].op \in {"getIntegrationConfiguration", "getProjects",
                                              "createEnv", "getGitHubRepo",
                                              "createDeployment"}
                    /\ OpRank(outbound[r][i].op) <= StepRank(req[r].failedAt)
              /\ \A i \in CallIdx(r) :
                    Succeeded(envCalls[r][i]) =>
                        projEnv[setter[r].projectId][envCalls[r][i].key] =
                            envCalls[r][i].value

\* an attempt whose batch failed on one variable after it created another
C6_Witness ==
    /\ req[Caller].pc = "done"
    /\ req[Caller].failedAt = "setEnvironmentVariables"
    /\ \E i \in CallIdx(Caller) : Failed(envCalls[Caller][i])
    /\ \E i \in CallIdx(Caller) :
          /\ Succeeded(envCalls[Caller][i])
          /\ projEnv[setter[Caller].projectId][envCalls[Caller][i].key] =
                 envCalls[Caller][i].value

C8_TargetProject ==
    \A r \in Reqs :
        /\ req[r].projectId # "none" =>
              /\ req[r].config # <<>>
              /\ IF req[r].config[1] # <<>>
                 THEN /\ req[r].projectId = req[r].config[1][1]
                      /\ OpsIn(r, "getProjects") = {}
                 ELSE /\ req[r].projects # <<>>
                      /\ req[r].projects[1] # <<>>
                      /\ req[r].projectId = req[r].projects[1][1]
        /\ \A i \in OpsIn(r, "createEnv") \cup OpsIn(r, "createDeployment") :
              /\ req[r].projectId # "none"
              /\ outbound[r][i].project = req[r].projectId
        /\ (req[r].config = << <<>> >> /\ req[r].projects = << <<>> >>) =>
              /\ req[r].pc = "done"
              /\ req[r].response.status = 500
              /\ req[r].response.message =
                     <<"No", "projects", "found", "in", "the", "account">>
              /\ req[r].projectId = "none"
              /\ OpsIn(r, "createEnv") = {}
              /\ OpsIn(r, "createDeployment") = {}
              /\ envCalls[r] = NoCalls

\* an attempt without a selection has deployed to the first project of a
\* listing whose last project is another one
C8_Witness ==
    /\ req[Caller].config = << <<>> >>
    /\ req[Caller].projects # <<>>
    /\ Len(req[Caller].projects[1]) >= 2
    /\ req[Caller].projects[1][1] # req[Caller].projects[1][Len(req[Caller].projects[1])]
    /\ \E d \in OpsIn(Caller, "createDeployment") :
          outbound[Caller][d].project = req[Caller].projects[1][1]

InstIdx == 1..Len(installations)

\* C9: the status of every installation is pending or installed in every
\* state; a row is inserted with status pending; and a write that leaves a
\* row installed is the update of a deploy request for that row whose
\* deployment call has succeeded, which is answered 200 in the same step.
C9_StatusLifecycle ==
    /\ [](\A i \in InstIdx : installations[i].status \in {"pending", "installed"})
    /\ [][\A i \in 1..Len(installations') :
             IF i > Len(installations)
             THEN installations'[i].status = "pending"
             ELSE (installations'[i] # installations[i]
                   /\ installations'[i].status = "installed") =>
                     \E r \in Reqs :
                         /\ req[r].pc = "markInstalled"
                         /\ req[r].installation = i
                         /\ req[r].failedAt = "none"
                         /\ \E d \in OpsIn(r, "createDeployment") : d = Len(outbound[r])
                         /\ \E n \in 1..Len(deployments) :
                               /\ deployments[n].id = req[r].deployment.id
                               /\ deployments[n].url = installations'[i].deployment_url
                         /\ req'[r].response.status = 200]_vars

\* a deploy of an installation that an earlier deploy had installed failed
\* at the deployment call and left the row pending
C9_Witness ==
    /\ req[Caller].pc = "done"
    /\ req[Caller].failedAt = "createDeployment"
    /\ req[Caller].installation \in InstIdx
    /\ installations[req[Caller].installation].status = "pending"
    /\ installations[req[Caller].installation].deployment_url # "none"

NotFoundErrors == {"Installation not found", "Account not found", "Access token not found"}

Lookups == {"getInstallation", "getAccount", "getToken"}

\* the step of request r from a state where it is at one of the lookups
LookupStep(r) == req[r].pc \in Lookups /\ req'[r] # req[r]

NotFound(response, error) == response.status = 404 /\ response.error = error

\* C10: a deploy request answered 404 carries one of the three "not found"
\* errors and has made no outbound call; a lookup step changes no
\* installation row and makes no outbound call; the installation lookup for
\* a configuration id that no row carries ends the request with 404
\* "Installation not found", and the account and token lookups either go on
\* or end the request with 404 "Account not found" and "Access token not
\* found".
C10_NotFound ==
    /\ [](\A r \in Reqs :
            (req[r].pc = "done" /\ req[r].response.status = 404) =>
                /\ req[r].response.error \in NotFoundErrors
                /\ outbound[r] = <<>>
                /\ envCalls[r] = NoCalls
                /\ req[r].deployment.id = "none")
    /\ [][\A r \in Reqs :
             LookupStep(r) =>
                 /\ installations' = installations
                 /\ outbound' = outbound
                 /\ (req[r].pc = "getInstallation"
                     /\ \A i \in InstIdx :
                           installations[i].installation_id # req[r].configurationId) =>
                       /\ req'[r].pc = "done"
                       /\ NotFound(req'[r].response, "Installation not found")
                 /\ req[r].pc = "getInstallation" =>
                       \/ req'[r].pc = "getAccount"
                          /\ installations[req'[r].installation].installation_id =
                                 req[r].configurationId
                       \/ req'[r].pc = "done"
                          /\ NotFound(req'[r].response, "Installation not found")
                 /\ req[r].pc = "getAccount" =>
                       \/ req'[r].pc = "getToken"
                       \/ req'[r].pc = "done"
                          /\ NotFound(req'[r].response, "Account not found")
                 /\ req[r].pc = "getToken" =>
                       \/ req'[r].pc = "markPending" /\ req'[r].accessToken \in Tokens
                       \/ req'[r].pc = "done"
                          /\ NotFound(req'[r].response, "Access token not found")]_vars

\* a request for a configuration id that none of the stored installations
\* carries was answered 404
C10_Witness ==
    /\ req[Caller].pc = "done"
    /\ NotFound(req[Caller].response, "Installation not found")
    /\ Len(installations) >= 1
    /\ \A i \in InstIdx : installations[i].installation_id # req[Caller].configurationId
    /\ outbound[Caller] = <<>>

----------------------------------------------------------------------------
(* Claims about tokens, validation and the OAuth callback *)

\* the envelope is not one the running server makes of a token: its
\* decryption does not give the token back
Undecryptable(ciphertext) == \A t \in Tokens : ciphertext # Encrypt(t)

\* the request has passed the token lookup
PastTokenLookup(r) == req[r].pc \notin {"idle", "getInstallation", "getAccount", "getToken"}

\* C11: a deploy request whose account row holds an envelope that does not
\* decrypt to the token is answered 404 "Access token not found" (or 404
\* for the account), holds no token and has made no outbound call.
C11_DecryptionFailureIsNotFound ==
    \A r \in Reqs :
        (/\ PastTokenLookup(r)
         /\ req[r].accountId \in 1..Len(accounts)
         /\ Undecryptable(accounts[req[r].accountId].access_token)) =>
            /\ req[r].pc = "done"
            /\ \/ NotFound(req[r].response, "Access token not found")
               \/ NotFound(req[r].response, "Account not found")
            /\ req[r].accessToken = NoToken
            /\ outbound[r] = <<>>

\* the callback being served came without a code
WithoutCode == oauth.pc # "idle" /\ oauth.code = "none"

\* C12: a callback request without a code is answered 400 "Missing
\* authorization code" at once; it has made no token exchange and holds no
\* token data, and no step of it changes the accounts or the installations.
C12_MissingCode ==
    /\ [](WithoutCode =>
            /\ oauth.pc = "done"
            /\ oauth.response = CallbackError(400, "Missing authorization code")
            /\ oauth.exchanges = <<>>
            /\ oauth.tokenData = NoTokenData)
    /\ [](oauth.response.status = 400 => WithoutCode)
    /\ [][(WithoutCode \/ WithoutCode') =>
             (accounts' = accounts /\ installations' = installations)]_vars

\* a request without a code was answered while both tables hold rows
C12_Witness ==
    /\ WithoutCode
    /\ oauth.response.status = 400
    /\ Len(accounts) >= 1
    /\ Len(installations) >= 1

\* the body of the request is not JSON or lacks a required field
Rejected(r) == req[r].pc # "idle" /\ (~req[r].body.json \/ req[r].body.absent # {})

\* C13: a deploy request whose body is malformed or lacks a required field
\* is answered 400 "Invalid request" with a message that names every field
\* at fault, having looked up no row, updated no installation and made no
\* outbound call.
C13_InvalidBodyIs400 ==
    \A r \in Reqs :
        Rejected(r) =>
            /\ req[r].pc = "done"
            /\ req[r].response.status = 400
            /\ req[r].response.error = "Invalid request"
            /\ \A f \in req[r].body.absent : Lists(req[r].response.message, f \o ":")
            /\ req[r].installation = 0
            /\ outbound[r] = <<>>

----------------------------------------------------------------------------
(* Claims about the errors of the platform *)

\* the request of slot r has ended on an error response of the platform
UpstreamFailed(r) ==
    /\ req[r].pc = "done"
    /\ req[r].thrown.kind = "axios"
    /\ req[r].thrown.err.status # 0

\* the texts of the shapes of a body in the order of the specification:
\* the string body, .message, .error, .error.message, .error_description,
\* the texts of .errors
SpecShapes(err) ==
    <<err.dataStr, err.dataMessage,
      IF err.errKind = "string" THEN err.errStr ELSE NoMsg,
      IF err.errKind = "object" THEN err.errMessage ELSE NoMsg,
      err.errorDescription,
      IF err.errors # <<>> THEN ErrorText(err.errors[1]) ELSE NoMsg>>

FirstPresent(texts) ==
    IF \A i \in 1..Len(texts) : texts[i] = NoMsg THEN NoMsg
    ELSE texts[CHOOSE i \in 1..Len(texts) :
                  texts[i] # NoMsg /\ \A j \in 1..(i - 1) : texts[j] = NoMsg]

StopsAt(err) ==
    IF err.dataStr # NoMsg THEN "string"
    ELSE IF err.dataMessage # NoMsg THEN "message"
    ELSE IF err.errKind # "none" THEN "error"
    ELSE IF err.errorDescription # NoMsg THEN "error_description"
    ELSE IF err.errors # <<>> THEN "errors"
    ELSE IF err.dataJson # NoMsg THEN "json"
    ELSE "none"

\* the text .error holds: the string, or of an object its message, else
\* the nested error, else its code
ErrorKeyText(err) ==
    IF err.errKind = "string" THEN err.errStr
    ELSE FirstPresent(<<err.errMessage, err.errInner,
                        IF err.errCode = "none" THEN NoMsg ELSE <<err.errCode>>>>)

\* the message carries what the key the route stopped at holds; nothing
\* is read of a body without a key, nor of an .error without a text
CarriesBody(message, err) ==
    LET at == StopsAt(err)
    IN /\ at = "string" => Includes(message, err.dataStr)
       /\ at = "message" => Includes(message, err.dataMessage)
       /\ at = "error" /\ ErrorKeyText(err) # NoMsg => Includes(message, ErrorKeyText(err))
       /\ at = "error_description" => Includes(message, err.errorDescription)
       /\ at = "errors" =>
             \A i \in 1..Len(err.errors) : Includes(message, ErrorText(err.errors[i]))
       /\ at = "json" => Includes(message, err.dataJson)
       /\ (at = "none" \/ (at = "error" /\ ErrorKeyText(err) = NoMsg)) =>
             Includes(message, <<"(" \o NumStr(err.status) \o ").">>)

MentionsConflict(message) ==
    \/ Includes(message, <<"already">>)
    \/ Includes(message, <<"exists">>)
    \/ Includes(message, <<"ENV_CONFLICT">>)

Answered409(r) ==
    {i \in 1..Len(envCalls[r]) :
        envCalls[r][i].st = "fulfilled" /\ envCalls[r][i].error.status = 409}

\* C15: once the platform has answered 409 to a creation call of a deploy
\* request, the request goes no further than the setter; it is answered
\* 500 with the aggregated message as the setter raised it, which names
\* the key of every such call and says "already exist", and no step of it
\* sets an installation to installed.
C15_ConflictSurfaced ==
    /\ [](\A r \in Reqs :
            Answered409(r) # {} =>
               /\ req[r].pc \in {"setEnvironmentVariables", "done"}
               /\ req[r].pc = "done" =>
                     /\ req[r].response.status = 500
                     /\ req[r].response.error = "Deployment failed"
                     /\ setter[r].state = "threw"
                     /\ req[r].response.message = setter[r].thrown
                     /\ Includes(req[r].response.message, <<"already", "exist">>)
                     /\ \A i \in Answered409(r) :
                           Includes(req[r].response.message, <<envCalls[r][i].key>>))
    /\ [][\A r \in Reqs :
            (Answered409(r) # {} /\ req'[r].seq = req[r].seq) =>
               \A i \in 1..Len(installations) :
                  installations'[i].status = "installed" =>
                     installations[i].status = "installed"]_vars

\* the creation of OPENAI_API_KEY was answered 409 and the request has ended
C15_Witness ==
    /\ req[Caller].pc = "done"
    /\ \E i \in Answered409(Caller) : envCalls[Caller][i].key = "OPENAI_API_KEY"
    /\ Includes(req[Caller].response.message, <<"OPENAI_API_KEY">>)
    /\ req[Caller].response.status = 500

----------------------------------------------------------------------------
(* Claims about the outbound calls *)

\* how many calls of the log match
Count(log, Match(_)) == Len(SelectSeq(log, Match))

\* the calls a deploy request makes besides the creation of variables
SingleCalls == {"getIntegrationConfiguration", "getProjects", "getGitHubRepo",
                "createDeployment"}

\* C16: within one inbound request no outbound call is made twice: a
\* callback makes at most one token exchange; a deploy request makes at
\* most one configuration lookup, project listing, repository lookup and
\* deployment creation, and one creation call per variable, also after a
\* call has failed.
C16_NoRetry ==
    /\ Len(oauth.exchanges) <= 1
    /\ \A r \in Reqs :
          /\ \A op \in SingleCalls : Count(outbound[r], LAMBDA c : c.op = op) <= 1
          /\ \A key \in {EnvKeyOrder[i] : i \in 1..Len(EnvKeyOrder)} :
                Count(outbound[r], LAMBDA c : c.op = "createEnv" /\ c.key = key) <= 1
          /\ Len(envCalls[r]) = Count(outbound[r], LAMBDA c : c.op = "createEnv")
          /\ req[r].failedAt # "none" => req[r].pc = "done"

\* a deploy request ended on the failure of the deployment creation, each
\* of its calls in the log once
C16_Witness ==
    /\ req[Caller].pc = "done"
    /\ req[Caller].failedAt = "createDeployment"
    /\ Count(outbound[Caller], LAMBDA c : c.op = "createDeployment") = 1
    /\ Count(outbound[Caller], LAMBDA c : c.op = "createEnv") = 2
    /\ Count(outbound[Caller], LAMBDA c : c.op = "getIntegrationConfiguration") = 1

----------------------------------------------------------------------------
(* Claims about the stored rows *)

AccountIdx == 1..Len(accounts)

\* C17: no two accounts carry the same remote user id; a step that writes
\* the accounts writes the row of the identity of the callback being
\* served, with the token of this exchange and the time of this callback,
\* over the row of that identity when there is one and as a new row only
\* when there is none; no step removes a row or changes its user id.
C17_OneAccountPerUser ==
    /\ [](\A i, j \in AccountIdx :
            accounts[i].vercel_user_id = accounts[j].vercel_user_id => i = j)
    /\ [][/\ Len(accounts') >= Len(accounts)
          /\ \A i \in AccountIdx : accounts'[i].vercel_user_id = accounts[i].vercel_user_id
          /\ accounts' # accounts =>
                LET userId == oauth.tokenData.user_id
                    had == {i \in AccountIdx : accounts[i].vercel_user_id = userId}
                    has == {i \in 1..Len(accounts') : accounts'[i].vercel_user_id = userId}
                IN /\ oauth.pc = "createAccount"
                   /\ Len(accounts') = Len(accounts) + (IF had = {} THEN 1 ELSE 0)
                   /\ had # {} => has = had
                   /\ \A i \in has :
                         /\ accounts'[i].access_token = Encrypt(oauth.tokenData.access_token)
                         /\ accounts'[i].updated_at = Now
                   /\ \A i \in AccountIdx \ had : accounts'[i] = accounts[i]]_vars

\* two callbacks of one identity went through: both installations belong
\* to the one account, which carries the time of the later callback
C17_Witness ==
    /\ Len(installations) = 2
    /\ Len(accounts) = 1
    /\ \A i \in 1..2 : installations[i].account_id = 1
    /\ accounts[1].updated_at >= 2

\* the rows of installations with this configuration identifier
RowsOf(configurationId) ==
    {i \in 1..Len(installations) : installations[i].installation_id = configurationId}

\* C18: no two installations carry the same configuration identifier; the
\* installation a deploy request works on is the row whose configuration
\* identifier is the one of the request; a callback that was redirected to
\* the configuration page has left exactly one row with its identifier,
\* and the lookup by an identifier that has a row finds that row.
C18_OneInstallationPerConfiguration ==
    /\ \A i, j \in 1..Len(installations) :
          installations[i].installation_id = installations[j].installation_id => i = j
    /\ \A r \in Reqs :
          req[r].installation # 0 =>
             /\ RowsOf(req[r].configurationId) = {req[r].installation}
             /\ installations[req[r].installation].uuid # req[r].configurationId
    /\ oauth.response.status = 307 => Cardinality(RowsOf(oauth.response.location)) = 1
    /\ \A c \in ConfigIds :
          RowsOf(c) # {} => RowsOf(c) = {GetInstallationById(c, TRUE)}

\* a deploy request found its installation while the table holds the rows
\* of two configurations
C18_Witness ==
    /\ Len(installations) = 2
    /\ req[Caller].installation = 2
    /\ req[Caller].pc = "getAccount"
    /\ req[Caller].configurationId = installations[2].installation_id

----------------------------------------------------------------------------
(* Claims about the encryption of the token *)

Concealed(envelope, text) ==
    LET plain == Utf8Parse(text)
    IN /\ envelope.salted
       /\ envelope.bytes # plain
       /\ Len(envelope.bytes) % BlockSize = 0
       /\ \A k \in 1..Len(plain) : envelope.bytes[k] # plain[k]

\* C20: the access token a callback writes to accounts is the envelope
\* encrypt makes of the token of the exchange, never the token itself, and
\* every row of accounts holds an envelope that conceals the token it
\* decrypts to.
C20_StoredEncrypted ==
    /\ [](\A i \in AccountIdx :
            /\ ~Decrypt(accounts[i].access_token).threw
            /\ Concealed(accounts[i].access_token, Decrypt(accounts[i].access_token).text))
    /\ [][accounts' # accounts =>
             \A i \in 1..Len(accounts') :
                accounts'[i].vercel_user_id = oauth.tokenData.user_id =>
                   /\ accounts'[i].access_token = Encrypt(oauth.tokenData.access_token)
                   /\ Concealed(accounts'[i].access_token, oauth.tokenData.access_token)]_vars

\* the row holds the envelope of a token of three code units, written by
\* the callback that has just been redirected
C20_Witness ==
    /\ Len(accounts) = 1
    /\ oauth.response.status = 307
    /\ oauth.tokenData.access_token = <<9, 1, 3>>
    /\ Decrypt(accounts[1].access_token).text = <<9, 1, 3>>
    /\ accounts[1].access_token.bytes # Utf8Parse(<<9, 1, 3>>)

----------------------------------------------------------------------------
(* Claims about what a deploy request leaves behind *)

\* the text columns of the two tables
InstallationColumns ==
    {"uuid", "installation_id", "app_name", "status", "vercel_project_id",
     "vercel_project_name", "deployment_url"}
AccountColumns == {"vercel_user_id", "vercel_team_id"}

\* the user credentials request r carries once its variables are prepared
CredentialsOf(r) ==
    {req[r].env[i].value : i \in {j \in 1..Len(req[r].env) :
                                     req[r].env[j].key = "OPENAI_API_KEY"}}

\* C21: no column of accounts or installations ever holds a user
\* credential of a deploy request, and no step of a deploy request writes
\* the accounts; of the calls of a request only the creation of a variable
\* carries a credential, and no deployment record does.
C21_CredentialsNotPersisted ==
    /\ [](/\ \A i \in InstIdx, c \in InstallationColumns :
                installations[i][c] \notin Credentials
          /\ \A i \in AccountIdx, c \in AccountColumns : accounts[i][c] \notin Credentials
          /\ \A i \in AccountIdx : accounts[i].access_token.salted
          /\ \A r \in Reqs : \A k \in LogIdx(r) :
                /\ outbound[r][k].project \notin Credentials
                /\ outbound[r][k].key \notin Credentials
                /\ outbound[r][k].value \in Credentials =>
                      /\ outbound[r][k].op = "createEnv"
                      /\ outbound[r][k].value \in CredentialsOf(r)
          /\ \A n \in 1..Len(deployments) :
                {deployments[n].id, deployments[n].url, deployments[n].project}
                   \cap Credentials = {})
    /\ [][(\E r \in Reqs : req'[r] # req[r]) => accounts' = accounts]_vars

\* a deploy request that sent its OpenAI key to the platform was answered
\* with success and its installation is installed
C21_Witness ==
    /\ req[Caller].pc = "done"
    /\ req[Caller].response.status = 200
    /\ CredentialsOf(Caller) = {"sk_user"}
    /\ \E k \in LogIdx(Caller) : outbound[Caller][k].value = "sk_user"
    /\ installations[req[Caller].installation].status = "installed"

----------------------------------------------------------------------------
(* Claims about the steps of the OAuth callback *)

\* the callback being served has exchanged its code, written its account
\* and inserted its installation
Completed ==
    /\ Len(oauth.exchanges) = 1
    /\ oauth.tokenData # NoTokenData
    /\ oauth.accountId \in AccountIdx
    /\ accounts[oauth.accountId].vercel_user_id = oauth.tokenData.user_id
    /\ accounts[oauth.accountId].access_token = Encrypt(oauth.tokenData.access_token)
    /\ accounts[oauth.accountId].updated_at = oauth.now
    /\ oauth.installation = Len(installations)
    /\ oauth.installation # 0
    /\ installations[oauth.installation]
          = InstallationRow(oauth.installation, oauth.tokenData.installation_id,
                            oauth.accountId)

\* C22: a callback with a code is answered either with the redirect to the
\* configuration page or with 500 "Failed to complete OAuth flow": with
\* the redirect exactly when it has exchanged the code, upserted the
\* account and inserted one pending installation linked to that account;
\* the redirect carries the installation identifier of the token response
\* and the next of the request when that was given. The account is written
\* only after the exchange and the installation only after the account.
C22_CallbackSteps ==
    /\ []((oauth.pc = "done" /\ oauth.code # "none") =>
            /\ oauth.response.status \in {307, 500}
            /\ oauth.response.status = 307 <=> Completed
            /\ oauth.response.status = 307 =>
                  /\ installations[oauth.installation].status = "pending"
                  /\ oauth.response.location = oauth.tokenData.installation_id
                  /\ oauth.response.next =
                        (IF oauth.next \in {"none", ""} THEN "none" ELSE oauth.next)
            /\ oauth.response.status = 500 =>
                  /\ oauth.response = FailedOAuthFlow
                  /\ oauth.installation = 0)
    /\ [][/\ accounts' # accounts =>
                /\ oauth.pc = "createAccount"
                /\ Len(oauth.exchanges) = 1
                /\ oauth.tokenData # NoTokenData
                /\ installations' = installations
          /\ installations' # installations =>
                /\ oauth.pc = "createInstallation"
                /\ accounts' = accounts
                /\ accounts[oauth.accountId].updated_at = oauth.now
                /\ Len(installations') = Len(installations) + 1
          /\ oauth'.exchanges # oauth.exchanges =>
                (oauth.exchanges = <<>> \/ oauth'.exchanges = <<>>)]_vars

\* a callback that came with a next was redirected with it
C22_Witness ==
    /\ oauth.pc = "done"
    /\ oauth.response.status = 307
    /\ oauth.next = "next_url"
    /\ oauth.response.next = "next_url"
    /\ Completed

----------------------------------------------------------------------------
(* Claims about the installation row of a deploy request *)

\* request r was answered with success
Succeeded200(r) == req[r].pc = "done" /\ req[r].response.status = 200

\* C23: a deploy request that was answered with success has left its
\* installation installed, with the deployment URL of the response and
\* the project of the deployment the response reports.
C23_SuccessIsStored ==
    \A r \in Reqs :
        Succeeded200(r) =>
            LET row == installations[req[r].installation]
            IN /\ row.status = "installed"
               /\ row.deployment_url = req[r].response.deploymentUrl
               /\ row.vercel_project_id = req[r].projectId
               /\ \E n \in 1..Len(deployments) :
                     /\ deployments[n].id = req[r].response.deploymentId
                     /\ deployments[n].url = row.deployment_url
                     /\ deployments[n].project = row.vercel_project_id

----------------------------------------------------------------------------
(* Claims about deploy requests that meet on one project *)

\* request r was answered 500 with the message of the conflict
ConflictFailed(r) ==
    /\ req[r].pc = "done"
    /\ req[r].response.status = 500
    /\ Includes(req[r].response.message, <<"already", "exist">>)
    /\ OpsIn(r, "createDeployment") = {}

\* C24: of the deploy requests that run at the same time for one project
\* at most one makes the deployment call: no second deployment is ever
\* created, a request that has ended was answered with success or failed
\* with the conflict, and of two that have ended one at least failed with
\* the conflict.
C24_AtMostOneDeploys ==
    /\ Len(deployments) <= 1
    /\ Cardinality({r \in Reqs : OpsIn(r, "createDeployment") # {}}) <= 1
    /\ \A r \in Reqs : req[r].pc = "done" => (Succeeded200(r) \/ ConflictFailed(r))
    /\ (\A r \in Reqs : req[r].pc = "done") => \E r \in Reqs : ConflictFailed(r)

\* both requests were in the setter at once, each created one of the keys
\* first, and both failed with the conflict
C24_Witness ==
    /\ \A r \in Reqs : ConflictFailed(r)
    /\ req["r1"].seq # req["r2"].seq
    /\ \A r \in Reqs : \E i \in 1..Len(envCalls[r]) : envCalls[r][i].success
    /\ deployments = <<>>

\* the creation calls of request r that were refused as a conflict
Refused(r) ==
    {i \in 1..Len(envCalls[r]) : envCalls[r][i].st = "fulfilled" /\ envCalls[r][i].isConflict}

Resolved(r) == req[r].projectId # "none" /\ envCalls[r] # NoCalls

\* the keys the project of request r holds that r has not created itself:
\* they were created before by another attempt
HeldBefore(r) ==
    {envCalls[r][i].key : i \in {j \in 1..Len(envCalls[r]) :
        /\ projEnv[req[r].projectId][envCalls[r][j].key] # NoValue
        /\ ~(envCalls[r][j].st = "fulfilled" /\ envCalls[r][j].success)}}

\* C26 as stated: an attempt on a project that holds a variable of an
\* earlier attempt makes no deployment call and fails with the conflict
\* error.
C26_LaterAttemptsConflict ==
    \A r \in Reqs :
        (Resolved(r) /\ HeldBefore(r) # {}) =>
            /\ OpsIn(r, "createDeployment") = {}
            /\ req[r].pc \in {"setEnvironmentVariables", "done"}
            /\ req[r].pc = "done" => ConflictFailed(r)

\* C26: an attempt on a project that holds a variable of an earlier
\* attempt makes no deployment call and fails; it fails with the conflict
\* error when the platform refused one of its creations as a conflict,
\* and with the error of the other failures when the platform refused
\* them all for another reason.
C26_LaterAttemptsFail ==
    \A r \in Reqs :
        (Resolved(r) /\ HeldBefore(r) # {}) =>
            /\ OpsIn(r, "createDeployment") = {}
            /\ req[r].pc \in {"setEnvironmentVariables", "done"}
            /\ req[r].pc = "done" =>
                  /\ req[r].response.status = 500
                  /\ req[r].failedAt = "setEnvironmentVariables"
                  /\ Refused(r) # {} => ConflictFailed(r)
                  /\ Refused(r) = {} =>
                        /\ ~ConflictFailed(r)
                        /\ Includes(req[r].response.message, <<"Failed", "to", "set">>)

\* the second attempt found the migration secret of the first on the
\* project and failed with the conflict
C26_Witness ==
    /\ Resolved(Caller)
    /\ "MIGRATION_SECRET_KEY" \in HeldBefore(Caller)
    /\ projEnv[req[Caller].projectId]["MIGRATION_SECRET_KEY"] # req[Caller].migrationSecretKey
    /\ ConflictFailed(Caller)

\* the callback being served has written its account and has ended
\* without an installation
InsertFailed == oauth.pc = "done" /\ oauth.accountId # 0 /\ oauth.installation = 0

\* C27: a callback whose insert of the installation fails after its
\* account was written is answered 500 "Failed to complete OAuth flow";
\* the step of the failure writes neither table, and the account keeps
\* the token of this exchange and the time of this callback.
C27_NotAtomic ==
    /\ [](InsertFailed =>
            /\ oauth.response = FailedOAuthFlow
            /\ accounts[oauth.accountId].vercel_user_id = oauth.tokenData.user_id
            /\ accounts[oauth.accountId].access_token
                  = Encrypt(oauth.tokenData.access_token)
            /\ accounts[oauth.accountId].updated_at = oauth.now)
    /\ [][(oauth.pc = "createInstallation" /\ oauth'.response.status = 500) =>
             (accounts' = accounts /\ installations' = installations)]_vars

\* the insert of a second callback of an identity failed: its account
\* carries the time of this callback and the installation of the first
\* callback is the only one
C27_Witness ==
    /\ InsertFailed
    /\ oauth.now >= 2
    /\ accounts[oauth.accountId].updated_at = oauth.now
    /\ Len(installations) = 1
    /\ installations[1].account_id = oauth.accountId

\* the columns an installed row has from its deployment
DeploymentColumns == {"vercel_project_id", "vercel_project_name", "deployment_url"}

\* C28: an installation with status installed has its project identifier,
\* project name and deployment URL set, and a step that makes a row
\* installed writes the three of them with the status: the project and
\* the URL of the deployment of the request that makes the step.
C28_InstalledHasDeployment ==
    /\ [](\A i \in InstIdx :
            installations[i].status = "installed" =>
               \A c \in DeploymentColumns : installations[i][c] # "none")
    /\ [][\A i \in InstIdx :
             (installations'[i].status = "installed" /\ installations'[i] # installations[i]) =>
                \E r \in Reqs :
                   /\ req[r].installation = i
                   /\ installations'[i].vercel_project_id = req[r].projectId
                   /\ installations'[i].vercel_project_name = "assistant-server"
                   /\ installations'[i].deployment_url = req[r].deployment.url
                   /\ req[r].deployment.url # "none"]_vars

\* an installation is installed with the project and the URL of a
\* deployment that was created
C28_Witness ==
    \E i \in InstIdx :
        /\ installations[i].status = "installed"
        /\ \E n \in 1..Len(deployments) :
              /\ deployments[n].url = installations[i].deployment_url
              /\ deployments[n].project = installations[i].vercel_project_id

\* the steps of deployFromGitHub
PlatformSteps ==
    {"getConfiguration", "getProjects", "setEnvironmentVariables", "getGitHubRepoId",
     "createDeployment"}

\* request r is past its update to pending and has not succeeded: it is
\* in deployFromGitHub, or it has failed there
Attempting(r) ==
    \/ req[r].pc \in PlatformSteps
    \/ req[r].pc = "done" /\ req[r].failedAt \in PlatformSteps

\* C29: from the first platform call of a deploy request on, and after
\* the attempt has failed, the installation of the request is pending,
\* also when it was installed before; a failed attempt leaves the project
\* identifier, project name and deployment URL of the row as they were.
C29_PendingDuringAttempt ==
    /\ [](\A r \in Reqs :
            Attempting(r) => installations[req[r].installation].status = "pending")
    /\ [][\A r \in Reqs :
             (Attempting(r) /\ Attempting(r)') =>
                \A c \in DeploymentColumns :
                   installations'[req[r].installation][c]
                      = installations[req[r].installation][c]]_vars

----------------------------------------------------------------------------
(* Claims about the secrets a deploy request generates *)

\* the values request r submitted to the platform under key
SubmittedAs(r, key) ==
    {outbound[r][k].value : k \in {j \in OpsIn(r, "createEnv") : outbound[r][j].key = key}}

\* the two secrets request r has generated
SecretsOf(r) == {req[r].migrationSecretKey, req[r].jwtSecret}

\* every value a project holds: what earlier requests have submitted
HeldValues == {projEnv[p][key] : p \in Projects, key \in Range(EnvKeyOrder)} \ {NoValue}

\* C30: the migration secret of a success response is the value the
\* request submitted as MIGRATION_SECRET_KEY, the value its project now
\* holds; the migration secret and the JWT secret a request generates are
\* two values that no project holds and no other request has generated.
C30_FreshSecrets ==
    /\ [](\A r \in Reqs :
            Succeeded200(r) =>
               /\ req[r].response.migrationSecretKey # "none"
               /\ SubmittedAs(r, "MIGRATION_SECRET_KEY") = {req[r].response.migrationSecretKey}
               /\ projEnv[req[r].projectId]["MIGRATION_SECRET_KEY"]
                     = req[r].response.migrationSecretKey)
    /\ [][\A r \in Reqs :
             (req[r].pc = "markPending" /\ req'[r].pc # "markPending") =>
                /\ Cardinality(SecretsOf(r)') = 2
                /\ "none" \notin SecretsOf(r)'
                /\ SecretsOf(r)' \cap HeldValues = {}
                /\ \A q \in Reqs \ {r} : SecretsOf(r)' \cap SecretsOf(q) = {}]_vars

\* the second deploy of a project has generated its secrets while the
\* project holds the migration secret of the first, which succeeded
C30_Witness ==
    /\ req[Caller].seq = 2
    /\ req[Caller].pc = "getConfiguration"
    /\ "none" \notin SecretsOf(Caller)
    /\ \E p \in Projects :
          /\ projEnv[p]["MIGRATION_SECRET_KEY"] \notin {NoValue, req[Caller].migrationSecretKey}
          /\ \E n \in 1..Len(deployments) : deployments[n].project = p

====
